---- MODULE Spec2Model ----
(***************************************************************************)
(* Scheduling / retry queue of the MangoType workspace.                    *)
(*                                                                         *)
(* The queue engine (lib/workspace: buildQueueItem, runDueQueue,           *)
(* retryQueueItem, sortQueueAsc, normalizeWorkspaceState) is modelled as   *)
(* operators; the handlers of the ComposeWorkbench component that drive it *)
(* (queueCurrentDraft, runDueJobs, publishScheduledItem,                   *)
(* retryScheduledItem, the "Retry Failed Items" command and the scheduler  *)
(* effect) are the actions.                                                *)
(*                                                                         *)
(* Time is counted in minutes (the retry table is in minutes); an absent   *)
(* optional timestamp is NoTime.  createId() is a fresh number.            *)
(***************************************************************************)
EXTENDS Integers, Sequences, FiniteSets, TLC

VARIABLES
  queue,        \* workspace.queue, the latest React state
  published,    \* workspace.published, the latest React state
  renderQueue,  \* workspace.queue as captured by the closures of the last committed render
  pending,      \* "none": the state is rendered; "sync": an update is being rendered, no event is
                \* handled before it is; "async": an update of the timer or of the effect awaits
                \* its render, and a click can be handled first
  now,          \* the clock (new Date()), in minutes
  nextId,       \* number of queue item ids handed out by createId()
  last,         \* the last queue operation: its name, the queue it read, its result
  activity,     \* workspace.activity, the latest React state
  nextLogId,    \* number of activity entry ids handed out by createId()
  logging,      \* whether workspace.activity is recorded: the specifications of the queue
                \* leave the log out, no handler reads it
  lint,         \* the text the lint engine works on, and the last call made on it
  rich,         \* the post text the formatting functions work on, and the last call made on it
  xCount,       \* the text the character counter weighs, and the last getXCount result
  publishState  \* the publish state shown next to the Schedule and Publish buttons

vars ==
  <<queue, published, renderQueue, pending, now, nextId, last, activity, nextLogId, logging, lint, rich, xCount,
    publishState>>

logVars == <<activity, nextLogId, logging>>

----------------------------------------------------------------------------
\* Bounds of the model
MaxItems == 2      \* queue items ever built
MaxPublished == 2  \* length of the published history at which publishing stops
MaxStoredAttempts == 5  \* largest maxAttempts of a stored queue item
MaxLogged == 3     \* activity entries created while the log is recorded
MaxLen == 3        \* longest text handed to the lint engine, in characters

\* Program constants
DEFAULT_QUEUE_MAX_ATTEMPTS == 3
MAX_ACTIVITY_LOGS == 80
DefaultScheduleMinutes == 60
retryMinutes == <<2, 10, 30>>

NoTime == -1
NoError == "undefined"
RetryScheduledError == "Temporary delivery failure. Auto retry scheduled."
MaxRetriesError == "Max retries reached. Manual retry required."

Min(a, b) == IF a < b THEN a ELSE b
Max(a, b) == IF a > b THEN a ELSE b

Range(s) == {s[i] : i \in 1..Len(s)}
RECURSIVE MapSeq(_, _)
MapSeq(F(_), s) == IF s = <<>> THEN <<>> ELSE <<F(Head(s))>> \o MapSeq(F, Tail(s))

----------------------------------------------------------------------------
\* The lint engine.  A string is the sequence of its UTF-16 code units; positions count from 0.

CJK == 19968..40959                      \* [\u4E00-\u9FFF]
Latin == (65..90) \cup (97..122)         \* [A-Za-z]
Digit == 48..57                          \* \d
FullWidthDigit == 65296..65305           \* the full-width digits, U+FF10 to U+FF19
WordChar == Latin \cup Digit \cup {95}   \* \w
WhiteSpace ==                            \* \s
  {9, 10, 11, 12, 13, 32, 160, 5760, 8232, 8233, 8239, 8287, 12288, 65279} \cup (8192..8202)
OPEN_PUNC == {65288, 12304, 12298, 12300, 12302}
CLOSE_PUNC == {65292, 12290, 65281, 65311, 65307, 65306, 12289, 65289, 12305, 12299, 12301, 12303}

toLowerCase(text) == [i \in 1..Len(text) |-> IF text[i] \in 65..90 THEN text[i] + 32 ELSE text[i]]

\* Regular expressions, as the trees the patterns of the source denote.
Class(chars) == [t |-> "class", chars |-> chars, neg |-> FALSE]
NotClass(chars) == [t |-> "class", chars |-> chars, neg |-> TRUE]
Cat(parts) == [t |-> "cat", parts |-> parts]
Alt(parts) == [t |-> "alt", parts |-> parts]
Rep(of, min, max) == [t |-> "rep", of |-> of, min |-> min, max |-> max]   \* greedy; max < 0: no limit
WordBoundary == [t |-> "wordb"]
LookAhead(of) == [t |-> "ahead", of |-> of]
Literal(text) == Cat([i \in 1..Len(text) |-> Class({text[i]})])
LiteralAnyCase(text) ==
  Cat([i \in 1..Len(text) |->
         Class({text[i]} \cup (IF text[i] \in 65..90 THEN {text[i] + 32} ELSE {})
                         \cup (IF text[i] \in 97..122 THEN {text[i] - 32} ELSE {}))])

\* Ends(re, s, i): the positions at which a match of re that starts at position i can end,
\* in the order in which the backtracking matcher tries them.
\* The concatenation of the sequences of a sequence.
RECURSIVE Flatten(_)
Flatten(parts) ==
  IF parts = <<>> THEN <<>>
  ELSE IF Len(parts) = 1 THEN parts[1]
  ELSE LET half == Len(parts) \div 2
       IN Flatten(SubSeq(parts, 1, half)) \o Flatten(SubSeq(parts, half + 1, Len(parts)))

\* The ends of a greedy run of at most longest characters from i: the longest allowed
\* by re.max first, down to re.min characters.
RunEnds(re, i, longest) ==
  [k \in 1..(Min(longest, IF re.max < 0 THEN longest ELSE re.max) - re.min + 1) |->
     i + Min(longest, IF re.max < 0 THEN longest ELSE re.max) - k + 1]

RECURSIVE Ends(_, _, _), EndsCat(_, _, _), EndsCatFrom(_, _, _), EndsAlt(_, _, _),
          EndsRep(_, _, _, _), EndsRepFrom(_, _, _, _), EndsRun(_, _, _)
Ends(re, s, i) ==
  CASE re.t = "class" ->
         IF i < Len(s) /\ ((s[i + 1] \in re.chars) # re.neg) THEN <<i + 1>> ELSE <<>>
    [] re.t = "wordb" ->
         IF (i > 0 /\ s[i] \in WordChar) # (i < Len(s) /\ s[i + 1] \in WordChar)
         THEN <<i>> ELSE <<>>
    [] re.t = "ahead" -> IF Ends(re.of, s, i) # <<>> THEN <<i>> ELSE <<>>
    [] re.t = "cat" -> EndsCat(re.parts, s, i)
    [] re.t = "alt" -> EndsAlt(re.parts, s, i)
    [] re.t = "rep" -> IF re.of.t = "class" THEN EndsRun(re, s, i) ELSE EndsRep(re, s, i, 0)

EndsCat(parts, s, i) ==
  IF Len(parts) = 0 THEN <<i>> ELSE EndsCatFrom(Tail(parts), s, Ends(Head(parts), s, i))

EndsCatFrom(parts, s, ends) ==
  Flatten([k \in 1..Len(ends) |-> EndsCat(parts, s, ends[k])])

EndsAlt(parts, s, i) ==
  IF Len(parts) = 0 THEN <<>> ELSE Ends(Head(parts), s, i) \o EndsAlt(Tail(parts), s, i)

EndsRep(re, s, i, count) ==
  (IF re.max < 0 \/ count < re.max
   THEN EndsRepFrom(re, s, SelectSeq(Ends(re.of, s, i), LAMBDA e : e > i), count + 1)
   ELSE <<>>)
    \o (IF count >= re.min THEN <<i>> ELSE <<>>)

EndsRepFrom(re, s, ends, count) ==
  Flatten([k \in 1..Len(ends) |-> EndsRep(re, s, ends[k], count)])

\* A repeated class: the ends of the runs of fitting characters from i, the longest first.
EndsRun(re, s, i) ==
  LET stops == {j \in (i + 1)..Len(s) : (s[j] \in re.of.chars) = re.of.neg}
  IN RunEnds(re, i, (IF stops = {} THEN Len(s)
                     ELSE (CHOOSE j \in stops : \A k \in stops : j <= k) - 1) - i)

\* RegExp.prototype.exec with lastIndex = from: the first match at or after from, or none.
NoMatch == [index |-> 0 - 1, end |-> 0 - 1]

\* The first match that starts at one of the positions from..to, found by halves.
MatchAt(index, ends) == IF ends # <<>> THEN [index |-> index, end |-> Head(ends)] ELSE NoMatch

RECURSIVE FirstMatch(_, _, _, _)
FirstMatch(re, s, from, to) ==
  IF from > to THEN NoMatch
  ELSE IF from = to THEN MatchAt(from, Ends(re, s, from))
  ELSE CHOOSE match \in {IF left # NoMatch THEN left
                          ELSE FirstMatch(re, s, (from + to) \div 2 + 1, to) :
                            left \in {FirstMatch(re, s, from, (from + to) \div 2)}} : TRUE

exec(re, s, from) == FirstMatch(re, s, from, Len(s))

\* RegExp.prototype.test of a regular expression that is not global.
test(re, s) == \E i \in 0..Len(s) : Ends(re, s, i) # <<>>

\* The matches of a global regular expression, as the exec loops of the source and
\* String.prototype.replace find them: lastIndex moves on by one after an empty match.
RECURSIVE MatchAll(_, _, _), MatchesAfter(_, _, _)
MatchAll(re, s, from) == MatchesAfter(re, s, exec(re, s, from))

MatchesAfter(re, s, match) ==
  IF match = NoMatch THEN <<>>
  ELSE <<match>> \o MatchAll(re, s, IF match.end = match.index THEN match.end + 1
                                                                 ELSE match.end)

slice(s, start, end) == SubSeq(s, start + 1, end)


ReplaceMatches(s, matches, texts) ==
  LET n == Len(matches)
      before(k) == slice(s, IF k = 1 THEN 0 ELSE matches[k - 1].end, matches[k].index)
  IN Flatten([k \in 1..n |-> before(k) \o texts[k]])
       \o slice(s, IF n = 0 THEN 0 ELSE matches[n].end, Len(s))

\* String.prototype.replace(re, F) with a global re and a function F of the matched text.
ReplaceBy(s, matches, F(_)) ==
  ReplaceMatches(s, matches,
                 [k \in 1..Len(matches) |-> F(slice(s, matches[k].index, matches[k].end))])

replace(s, re, F(_)) == ReplaceBy(s, MatchAll(re, s, 0), F)

\* The replacement patterns of a replacement string when the pattern has no groups:
\* $$ is a dollar sign, $& the match, $` the text before it and $' the text after it.
RECURSIVE GetSubstitution(_, _, _)
GetSubstitution(template, s, match) ==
  IF template = <<>> THEN <<>>
  ELSE IF Head(template) = 36 /\ Len(template) >= 2 /\ template[2] \in {36, 38, 96, 39}
  THEN (CASE template[2] = 36 -> <<36>>
          [] template[2] = 38 -> slice(s, match.index, match.end)
          [] template[2] = 96 -> slice(s, 0, match.index)
          [] template[2] = 39 -> slice(s, match.end, Len(s)))
         \o GetSubstitution(SubSeq(template, 3, Len(template)), s, match)
  ELSE <<Head(template)>> \o GetSubstitution(Tail(template), s, match)

\* String.prototype.replace(re, template) with a global re and a replacement string.
SubstituteAll(s, matches, template) ==
  ReplaceMatches(s, matches,
                 [k \in 1..Len(matches) |-> GetSubstitution(template, s, matches[k])])

replaceWith(s, re, template) == SubstituteAll(s, MatchAll(re, s, 0), template)

\* The rules.  An issue keeps ruleId, level, start, end and excerpt; its id is made of
\* ruleId, start, end and excerpt, and its message and suggestion are fixed texts per rule.
RuleIds ==
  <<"R001", "R002", "R003", "R004", "R005", "R006", "R007",
    "R101", "R102", "R103", "R104", "C201", "C202", "C203">>

RULE_DEFINITIONS ==
  [i \in 1..Len(RuleIds) |->
     [id |-> RuleIds[i],
      level |-> IF i <= 7 THEN "error" ELSE "warn",
      category |-> IF i <= 7 THEN "strict" ELSE IF i <= 11 THEN "suggestion" ELSE "controversial",
      enabledByDefault |-> i <= 11,
      autofix |-> i <= 7]]

RuleIndex(ruleId) == CHOOSE i \in 1..Len(RuleIds) : RuleIds[i] = ruleId

createDefaultRuleState == [id \in Range(RuleIds) |-> RULE_DEFINITIONS[RuleIndex(id)].enabledByDefault]

UNITS ==
  {<<107, 98>>,
   <<109, 98>>,
   <<103, 98>>,
   <<116, 98>>,
   <<107, 105, 98>>,
   <<109, 105, 98>>,
   <<103, 105, 98>>,
   <<116, 105, 98>>,
   <<98, 112, 115>>,
   <<107, 98, 112, 115>>,
   <<109, 98, 112, 115>>,
   <<103, 98, 112, 115>>,
   <<116, 98, 112, 115>>,
   <<104, 122>>,
   <<107, 104, 122>>,
   <<109, 104, 122>>,
   <<103, 104, 122>>,
   <<107, 103>>,
   <<103>>,
   <<109, 103>>,
   <<107, 109>>,
   <<109>>,
   <<99, 109>>,
   <<109, 109>>,
   <<109, 115>>,
   <<115>>,
   <<119>>,
   <<107, 119>>,
   <<118>>,
   <<97>>}

PROPER_NOUNS ==
  <<<<71, 105, 116, 72, 117, 98>>,
    <<74, 97, 118, 97, 83, 99, 114, 105, 112, 116>>,
    <<84, 121, 112, 101, 83, 99, 114, 105, 112, 116>>,
    <<72, 84, 77, 76, 53>>,
    <<82, 101, 97, 99, 116>>,
    <<78, 101, 120, 116, 46, 106, 115>>,
    <<78, 111, 100, 101, 46, 106, 115>>,
    <<84, 119, 105, 116, 116, 101, 114>>,
    <<76, 101, 97, 110, 67, 108, 111, 117, 100>>>>

DEFAULT_WHITELIST == <<<<35910, 29923, 70, 77>>>>   \* the one term of the source: two CJK characters and "FM"

AFTER_ELLIPSIS == {65292, 12290, 65281, 65311, 65307, 65306, 12289}   \* the seven full-width marks
Ellipsis == <<8230, 8230>>                \* the two-character ellipsis the fixes write
Dash == <<8212, 8212>>                    \* the two-character dash

R001_REGEX == Alt(<<Cat(<<Class(CJK), Class(Latin)>>), Cat(<<Class(Latin), Class(CJK)>>)>>)
R002_REGEX == Alt(<<Cat(<<Class(CJK), Class(Digit)>>), Cat(<<Class(Digit), Class(CJK)>>)>>)
\* \d(?:[A-Za-z]{1,5}|[kKmMgGtT]?[bB]ps|[kKmMgGtT]?[bB]|[kKmMgG]?[hH]z)\b
R003_REGEX ==
  Cat(<<Class(Digit),
        Alt(<<Rep(Class(Latin), 1, 5),
              Cat(<<Rep(Class({107, 75, 109, 77, 103, 71, 116, 84}), 0, 1), Class({98, 66}), Literal(<<112, 115>>)>>),
              Cat(<<Rep(Class({107, 75, 109, 77, 103, 71, 116, 84}), 0, 1), Class({98, 66})>>),
              Cat(<<Rep(Class({107, 75, 109, 77, 103, 71}), 0, 1), Class({104, 72}), Class({122})>>)>>),
        WordBoundary>>)
R004_REGEX ==
  Alt(<<Cat(<<Rep(Class(WhiteSpace), 1, 0 - 1), Class(CLOSE_PUNC)>>),
        Cat(<<Class(OPEN_PUNC), Rep(Class(WhiteSpace), 1, 0 - 1)>>)>>)
\* \.{3,}|<ideographic full stop>{3,}|<ellipsis>(?=[^\s<seven full-width marks>])
R005_REGEX ==
  Alt(<<Rep(Class({46}), 3, 0 - 1),
        Rep(Class({12290}), 3, 0 - 1),
        Cat(<<Literal(Ellipsis), LookAhead(NotClass(WhiteSpace \cup AFTER_ELLIPSIS))>>)>>)
R006_REGEX ==
  Alt(<<Cat(<<NotClass(WhiteSpace), Literal(Dash)>>),
        Cat(<<Literal(Dash), NotClass(WhiteSpace)>>),
        Literal(<<45, 45>>)>>)
R007_REGEX == Class(FullWidthDigit)
R101_REGEX == Rep(Class({33, 63, 65281, 65311, 12290}), 2, 0 - 1)
R102_REGEX ==
  Alt(<<Cat(<<Class(CJK), Class({33, 63, 44, 46, 58, 59})>>), Cat(<<Class({33, 63, 44, 46, 58, 59}), Class(CJK)>>)>>)
\* \bJs\b, \bh5\b, \bFED\b, \bRJS\b, and with the i flag \bbackbone\b, \bangular\b
BAD_ABBREVIATIONS ==
  <<Cat(<<WordBoundary, Literal(<<74, 115>>), WordBoundary>>),
    Cat(<<WordBoundary, Literal(<<104, 53>>), WordBoundary>>),
    Cat(<<WordBoundary, Literal(<<70, 69, 68>>), WordBoundary>>),
    Cat(<<WordBoundary, Literal(<<82, 74, 83>>), WordBoundary>>),
    Cat(<<WordBoundary, LiteralAnyCase(<<98, 97, 99, 107, 98, 111, 110, 101>>), WordBoundary>>),
    Cat(<<WordBoundary, LiteralAnyCase(<<97, 110, 103, 117, 108, 97, 114>>), WordBoundary>>)>>
\* CJK(https?:\/\/|www\.)|(https?:\/\/\S+)CJK
C201_REGEX ==
  Alt(<<Cat(<<Class(CJK),
              Alt(<<Cat(<<Literal(<<104, 116, 116, 112>>), Rep(Class({115}), 0, 1), Literal(<<58, 47, 47>>)>>),
                    Literal(<<119, 119, 119, 46>>)>>)>>),
        Cat(<<Literal(<<104, 116, 116, 112>>), Rep(Class({115}), 0, 1), Literal(<<58, 47, 47>>),
              Rep(NotClass(WhiteSpace), 1, 0 - 1), Class(CJK)>>)>>)
C202_REGEX == Class({8220, 8221, 8216, 8217})
C203_REGEX == Rep(Class({33, 63, 65311, 65281}), 3, 0 - 1)

\* !text.trim(): the text has white space only.
IsBlank(text) == \A i \in 1..Len(text) : text[i] \in WhiteSpace

\* String.prototype.trim
trim(text) ==
  LET kept == {i \in 1..Len(text) : text[i] \notin WhiteSpace}
  IN IF kept = {} THEN <<>>
     ELSE SubSeq(text, CHOOSE i \in kept : \A j \in kept : i <= j,
                       CHOOSE i \in kept : \A j \in kept : i >= j)

\* Array.from(new Set(...)): the first occurrence of each value, in order.
RECURSIVE Distinct(_)
Distinct(s) ==
  IF s = <<>> THEN <<>>
  ELSE LET rest == Distinct(SubSeq(s, 1, Len(s) - 1))
           x == s[Len(s)]
       IN IF x \in Range(rest) THEN rest ELSE Append(rest, x)

uniqueTerms(terms) ==
  Distinct(SelectSeq([i \in 1..Len(terms) |-> trim(terms[i])], LAMBDA term : term # <<>>))

\* escapeRegExp followed by new RegExp: the term matches itself, character by character.
findTermRanges(source, terms) ==
  Flatten([i \in 1..Len(terms) |-> MatchAll(Literal(terms[i]), source, 0)])

isIgnoredRange(start, end, ranges) ==
  \E i \in 1..Len(ranges) : start >= ranges[i].index /\ end <= ranges[i].end

createIssue(ruleId, start, end, excerpt) ==
  [ruleId |-> ruleId, level |-> RULE_DEFINITIONS[RuleIndex(ruleId)].level,
   start |-> start, end |-> end, excerpt |-> excerpt]

pushRegexIssues(ruleId, source, regex, ignoredRanges) ==
  LET matches == SelectSeq(MatchAll(regex, source, 0),
                           LAMBDA match : ~isIgnoredRange(match.index, match.end, ignoredRanges))
  IN [k \in 1..Len(matches) |->
        createIssue(ruleId, matches[k].index, matches[k].end,
                    slice(source, matches[k].index, matches[k].end))]

\* R103: a proper noun written in another case than the expected one.
properNounIssues(input) ==
  Flatten([n \in 1..Len(PROPER_NOUNS) |->
    LET matches == SelectSeq(MatchAll(LiteralAnyCase(PROPER_NOUNS[n]), input, 0),
                             LAMBDA match : slice(input, match.index, match.end) # PROPER_NOUNS[n])
    IN [k \in 1..Len(matches) |->
          createIssue("R103", matches[k].index, matches[k].end,
                      slice(input, matches[k].index, matches[k].end))]])

\* issues.sort((a, b) => a.start - b.start): ascending by start, stable.
RECURSIVE SortIssuesBy(_, _)
SortIssuesBy(issues, starts) ==
  IF starts = {} THEN <<>>
  ELSE LET first == CHOOSE a \in starts : \A b \in starts : a - b <= 0
       IN SelectSeq(issues, LAMBDA issue : issue.start = first)
            \o SortIssuesBy(issues, starts \ {first})

sortIssues_Unsorted(issues) == issues
sortIssues(issues) == SortIssuesBy(issues, {issues[i].start : i \in 1..Len(issues)})

\* The issues in the order lintText detects them: rule by rule, each rule's matches in
\* match order.
detectIssues(input, ruleState, customWhitelist) ==
  LET whitelist == uniqueTerms(DEFAULT_WHITELIST \o customWhitelist)
      ignoredRanges == findTermRanges(input, whitelist)
      When(ruleId, found) == IF ruleState[ruleId] THEN found ELSE <<>>
  IN When("R001", pushRegexIssues("R001", input, R001_REGEX, ignoredRanges))
       \o When("R002", pushRegexIssues("R002", input, R002_REGEX, ignoredRanges))
       \o When("R003", pushRegexIssues("R003", input, R003_REGEX, <<>>))
       \o When("R004", pushRegexIssues("R004", input, R004_REGEX, <<>>))
       \o When("R005", pushRegexIssues("R005", input, R005_REGEX, <<>>))
       \o When("R006", pushRegexIssues("R006", input, R006_REGEX, <<>>))
       \o When("R007", pushRegexIssues("R007", input, R007_REGEX, <<>>))
       \o When("R101", pushRegexIssues("R101", input, R101_REGEX, <<>>))
       \o When("R102", pushRegexIssues("R102", input, R102_REGEX, <<>>))
       \o When("R103", properNounIssues(input))
       \o When("R104", Flatten([n \in 1..Len(BAD_ABBREVIATIONS) |->
                                  pushRegexIssues("R104", input, BAD_ABBREVIATIONS[n], <<>>)]))
       \o When("C201", pushRegexIssues("C201", input, C201_REGEX, <<>>))
       \o When("C202", pushRegexIssues("C202", input, C202_REGEX, <<>>))
       \o When("C203", pushRegexIssues("C203", input, C203_REGEX, <<>>))

lintText(input, ruleState, customWhitelist) ==
  sortIssues(detectIssues(input, ruleState, customWhitelist))

\* The token that stands for the whitelist term of a given index: __TERM_<index>__
RECURSIVE Decimal(_)
Decimal(n) == IF n < 10 THEN <<48 + n>> ELSE Decimal(n \div 10) \o <<48 + (n % 10)>>

Token(index) == <<95, 95, 84, 69, 82, 77, 95>> \o Decimal(index) \o <<95, 95>>

RECURSIVE protectFrom(_, _, _)
protectFrom(text, terms, index) ==
  IF index >= Len(terms) THEN text
  ELSE protectFrom(replaceWith(text, Literal(terms[index + 1]), Token(index)), terms, index + 1)

protectTerms(input, terms) ==
  [text |-> protectFrom(input, terms, 0),
   replacements |-> [i \in 1..Len(terms) |-> [token |-> Token(i - 1), term |-> terms[i]]]]

RECURSIVE restoreTerms(_, _)
restoreTerms(input, replacements) ==
  IF replacements = <<>> THEN input
  ELSE restoreTerms(replaceWith(input, Literal(Head(replacements).token),
                                Head(replacements).term),
                    Tail(replacements))

\* "$1 $2" for a match of two characters
SpaceBetween(matched) == <<matched[1], 32, matched[2]>>
CollapseSpaces(text) == replace(text, Rep(Class({32}), 2, 0 - 1), LAMBDA matched : <<32>>)

fixSpacingBetweenCjkAndLatin(input, customWhitelist) ==
  LET whitelist == uniqueTerms(DEFAULT_WHITELIST \o customWhitelist)
      protectedText == protectTerms(input, whitelist)
      fixed == CollapseSpaces(
                 replace(replace(protectedText.text,
                                 Cat(<<Class(CJK), Class(Latin)>>), SpaceBetween),
                         Cat(<<Class(Latin), Class(CJK)>>), SpaceBetween))
  IN restoreTerms(fixed, protectedText.replacements)

fixSpacingBetweenCjkAndNumber(input) ==
  CollapseSpaces(
    replace(replace(input, Cat(<<Class(CJK), Class(Digit)>>), SpaceBetween),
            Cat(<<Class(Digit), Class(CJK)>>), SpaceBetween))

\* the callback of fixSpacingBetweenNumberAndUnit: numberPart is the digit, unit the rest
SpaceBeforeUnit(raw) ==
  IF toLowerCase(Tail(raw)) \notin UNITS THEN raw ELSE <<Head(raw), 32>> \o Tail(raw)

fixSpacingBetweenNumberAndUnit(input) == replace(input, R003_REGEX, SpaceBeforeUnit)

\* "$1" is the mark: the last character of \s+(CLOSE_PUNC), the first of (OPEN_PUNC)\s+
fixPunctuationSpacing(input) ==
  replace(replace(input, Cat(<<Rep(Class(WhiteSpace), 1, 0 - 1), Class(CLOSE_PUNC)>>),
                  LAMBDA matched : <<matched[Len(matched)]>>),
          Cat(<<Class(OPEN_PUNC), Rep(Class(WhiteSpace), 1, 0 - 1)>>),
          LAMBDA matched : <<matched[1]>>)

fixEllipsis_NoLookAhead(input) ==
  replace(
    replace(
      replace(
        replace(input, Rep(Class({46}), 3, 0 - 1), LAMBDA matched : Ellipsis),
        Rep(Class({12290}), 3, 0 - 1), LAMBDA matched : Ellipsis),
      Rep(Class({8230}), 3, 0 - 1), LAMBDA matched : Ellipsis),
    Literal(Ellipsis),
    LAMBDA matched : Ellipsis \o <<32>>)
fixEllipsis(input) ==
  replace(
    replace(
      replace(
        replace(input, Rep(Class({46}), 3, 0 - 1), LAMBDA matched : Ellipsis),
        Rep(Class({12290}), 3, 0 - 1), LAMBDA matched : Ellipsis),
      Rep(Class({8230}), 3, 0 - 1), LAMBDA matched : Ellipsis),
    Cat(<<Literal(Ellipsis), LookAhead(NotClass(WhiteSpace \cup AFTER_ELLIPSIS))>>),
    LAMBDA matched : Ellipsis \o <<32>>)

\* \s*<text>\s*
AroundWhiteSpace(text) ==
  Cat(<<Rep(Class(WhiteSpace), 0, 0 - 1), Literal(text), Rep(Class(WhiteSpace), 0, 0 - 1)>>)

fixDash(input) ==
  CollapseSpaces(
    replace(replace(input, AroundWhiteSpace(Dash), LAMBDA matched : <<32>> \o Dash \o <<32>>),
            AroundWhiteSpace(<<45, 45>>), LAMBDA matched : <<32>> \o Dash \o <<32>>))

\* String.fromCharCode(digit.charCodeAt(0) - 0xfee0)
fixFullWidthDigits(input) ==
  replace(input, Class(FullWidthDigit), LAMBDA digit : <<digit[1] - 65248>>)

applyRuleFix(input, ruleId, customWhitelist) ==
  CASE ruleId = "R001" -> fixSpacingBetweenCjkAndLatin(input, customWhitelist)
    [] ruleId = "R002" -> fixSpacingBetweenCjkAndNumber(input)
    [] ruleId = "R003" -> fixSpacingBetweenNumberAndUnit(input)
    [] ruleId = "R004" -> fixPunctuationSpacing(input)
    [] ruleId = "R005" -> fixEllipsis(input)
    [] ruleId = "R006" -> fixDash(input)
    [] ruleId = "R007" -> fixFullWidthDigits(input)
    [] OTHER -> input

\* RULE_DEFINITIONS.reduce: the text after the first count rules had their turn.
RECURSIVE applyFixesOf(_, _, _, _)
applyFixesOf(input, count, ruleState, customWhitelist) ==
  IF count = 0 THEN input
  ELSE LET rule == RULE_DEFINITIONS[count]
       IN CHOOSE after \in {IF ~ruleState[rule.id] \/ ~rule.autofix THEN text
                            ELSE applyRuleFix(text, rule.id, customWhitelist) :
                              text \in {applyFixesOf(input, count - 1, ruleState, customWhitelist)}} : TRUE

applyAllFixes(input, ruleState, customWhitelist) ==
  applyFixesOf(input, Len(RULE_DEFINITIONS), ruleState, customWhitelist)

\* The text under the lint engine: the whitelist the user entered, the last call made on it
\* and, for a run of calls of one fix, the text the run started from.
LintInput(text, whitelist) ==
  [text |-> text, whitelist |-> whitelist, op |-> "input", rule |-> "none", times |-> 0,
   input |-> text, ruleState |-> createDefaultRuleState, detected |-> <<>>, issues |-> <<>>]

----------------------------------------------------------------------------
\* Rich text (lib/formatting).  A post is a string of markup; the lint engine, the counter
\* and the exports read the plain text toLintText makes of it.  Where there is a document
\* (typeof window !== "undefined") the markup is parsed by the browser, elsewhere by
\* parseFallback.

RECURSIVE split(_, _)
split(text, separator) ==                \* String.prototype.split with a one-unit separator
  LET found == {i \in 1..Len(text) : text[i] = separator}
  IN IF found = {} THEN <<text>>
     ELSE LET first == CHOOSE i \in found : \A j \in found : i <= j
          IN <<SubSeq(text, 1, first - 1)>> \o split(SubSeq(text, first + 1, Len(text)), separator)

RECURSIVE join(_, _)
join(parts, separator) ==                \* Array.prototype.join
  IF parts = <<>> THEN <<>>
  ELSE IF Len(parts) = 1 THEN parts[1]
  ELSE parts[1] \o separator \o join(Tail(parts), separator)

BR_TAG ==                                \* /<br\s*\/?>/gi
  Cat(<<LiteralAnyCase(<<60, 98, 114>>), Rep(Class(WhiteSpace), 0, 0 - 1),
        Rep(Class({47}), 0, 1), Class({62})>>)
CLOSE_BLOCK_TAG ==                       \* /<\/(p|div|h1|h2|h3|blockquote|li)>/gi
  Cat(<<Literal(<<60, 47>>),
        Alt(<<LiteralAnyCase(<<112>>), LiteralAnyCase(<<100, 105, 118>>),
              LiteralAnyCase(<<104, 49>>), LiteralAnyCase(<<104, 50>>),
              LiteralAnyCase(<<104, 51>>),
              LiteralAnyCase(<<98, 108, 111, 99, 107, 113, 117, 111, 116, 101>>),
              LiteralAnyCase(<<108, 105>>)>>),
        Class({62})>>)
ANY_TAG == Cat(<<Class({60}), Rep(NotClass({62}), 1, 0 - 1), Class({62})>>)   \* /<[^>]+>/g
BLANK_LINES == Rep(Class({10}), 3, 0 - 1)                                     \* /\n{3,}/g

InlineChunk(text) == [text |-> text, bold |-> FALSE, italic |-> FALSE]
EmptyBlock == [type |-> "empty", chunks |-> <<InlineChunk(<<>>)>>]

\* The nodes of a document.  The markup parsed is the markup of paragraphs, line breaks
\* and text, without character references: every "<" of it opens <p>, </p> or <br>.
TextNode(text) == [nodeType |-> "TEXT_NODE", tagName |-> "#text", textContent |-> text, childNodes |-> <<>>]
ElementNode(tagName, childNodes) ==
  [nodeType |-> "ELEMENT_NODE", tagName |-> tagName, textContent |-> <<>>, childNodes |-> childNodes]

StartsWith(text, prefix) == Len(text) >= Len(prefix) /\ SubSeq(text, 1, Len(prefix)) = prefix

\* container.innerHTML = html; container.childNodes.  An unclosed paragraph runs to the end.
RECURSIVE childNodes(_)
childNodes(html) ==
  IF html = <<>> THEN <<>>
  ELSE IF StartsWith(html, <<60, 112, 62>>)
  THEN LET close == exec(Literal(<<60, 47, 112, 62>>), html, 0)
           inner == slice(html, 3, IF close = NoMatch THEN Len(html) ELSE close.index)
           rest == slice(html, IF close = NoMatch THEN Len(html) ELSE close.end, Len(html))
       IN <<ElementNode("p", childNodes(inner))>> \o childNodes(rest)
  ELSE IF StartsWith(html, <<60, 98, 114, 62>>)
  THEN <<ElementNode("br", <<>>)>> \o childNodes(slice(html, 4, Len(html)))
  ELSE LET open == exec(Class({60}), html, 1)
           end == IF open = NoMatch THEN Len(html) ELSE open.index
       IN <<TextNode(slice(html, 0, end))>> \o childNodes(slice(html, end, Len(html)))

\* sanitizeNode keeps paragraphs, line breaks and text as they are, and the markup read
\* back from the container is the markup written to it.
normalizeRichHtml(input, window) ==
  IF IsBlank(input) THEN <<60, 112, 62, 60, 98, 114, 62, 60, 47, 112, 62>>
  ELSE input

RECURSIVE extractChunks(_)
extractChunks(node) ==
  IF node.nodeType = "TEXT_NODE" THEN <<InlineChunk(node.textContent)>>
  ELSE IF node.tagName = "br" THEN <<InlineChunk(<<10>>)>>
  ELSE Flatten([k \in 1..Len(node.childNodes) |-> extractChunks(node.childNodes[k])])

\* renderChunks(chunks, "plain"): applyTextStyle returns the text of a chunk in this mode.
renderChunks(chunks) ==
  trim(replaceWith(Flatten([k \in 1..Len(chunks) |-> chunks[k].text]),
                   Rep(Class(WhiteSpace), 1, 0 - 1), <<32>>))

parseFallback(input) ==
  LET text == trim(replaceWith(replaceWith(replaceWith(replaceWith(input,
                     BR_TAG, <<10>>), CLOSE_BLOCK_TAG, <<10>>), ANY_TAG, <<>>),
                     BLANK_LINES, <<10, 10>>))
      lines == split(text, 10)
  IN IF text = <<>> THEN <<EmptyBlock>>
     ELSE [k \in 1..Len(lines) |-> [type |-> "p", chunks |-> <<InlineChunk(lines[k])>>]]

\* The blocks of one child node of the container.
BlocksOfNode(node) ==
  IF node.nodeType = "TEXT_NODE"
  THEN (IF trim(node.textContent) # <<>>
        THEN <<[type |-> "p", chunks |-> <<InlineChunk(node.textContent)>>]>> ELSE <<>>)
  ELSE <<[type |-> "p", chunks |-> extractChunks(node)]>>

parseBlocks(input, window) ==
  IF trim(input) = <<>> THEN <<EmptyBlock>>
  ELSE IF ~window THEN parseFallback(input)
  ELSE LET nodes == childNodes(normalizeRichHtml(input, window))
           blocks == Flatten([k \in 1..Len(nodes) |-> BlocksOfNode(nodes[k])])
       IN IF blocks # <<>> THEN blocks ELSE <<EmptyBlock>>

toLintText(input, window) ==
  LET blocks == parseBlocks(input, window)
  IN replaceWith(join([k \in 1..Len(blocks) |-> renderChunks(blocks[k].chunks)], <<10>>),
                 BLANK_LINES, <<10, 10>>)

\* The text under the formatting functions and the calls made on it.
RichInput(text, window) ==
  [text |-> text, window |-> window, op |-> "input", times |-> 0, input |-> text]

\* The text the character counter weighs (twitterText.parseTweet gives the weighted
\* length) and the result of getXCount.
X_LIMIT == 25000

\* Mutant of getXCount: a text of exactly the limit is not valid.
getXCount_Strict(weightedLength) ==
  [weightedLength |-> weightedLength,
   remaining |-> X_LIMIT - weightedLength,
   valid |-> weightedLength < X_LIMIT]

getXCount(weightedLength) ==
  [weightedLength |-> weightedLength,
   remaining |-> X_LIMIT - weightedLength,
   valid |-> weightedLength <= X_LIMIT]

CountInput(weightedLength) == [weightedLength |-> weightedLength, op |-> "input", result |-> getXCount(0)]

----------------------------------------------------------------------------
\* Post texts.  A prepared post is tweet text; the queue stores rich markup.
TweetTexts == {<<>>, <<104, 105>>}

EmptyParagraph == <<60, 112, 62, 60, 98, 114, 62, 60, 47, 112, 62>>          \* <p><br></p>
HAS_TAG ==                                                                   \* /<[a-z][\s\S]*>/i
  Cat(<<Class({60}), Class(Latin), Rep(NotClass({}), 0, 0 - 1), Class({62})>>)

escapeHtml(input) ==
  replaceWith(replaceWith(replaceWith(replaceWith(replaceWith(input,
    Class({38}), <<38, 97, 109, 112, 59>>),
    Class({60}), <<38, 108, 116, 59>>),
    Class({62}), <<38, 103, 116, 59>>),
    Class({34}), <<38, 113, 117, 111, 116, 59>>),
    Class({39}), <<38, 35, 51, 57, 59>>)

\* The lines of a tweet text become paragraphs.  The texts have none of the marks of the
\* shorthand (headings, quotes, lists, emphasis): inlineMarkdownToHtml escapes them.
LineToHtml(line) ==
  IF line = <<>> THEN EmptyParagraph ELSE <<60, 112, 62>> \o escapeHtml(line) \o <<60, 47, 112, 62>>

LinesToHtml(lines) == Flatten([k \in 1..Len(lines) |-> LineToHtml(trim(lines[k]))])

toRichHtml(input) ==
  IF IsBlank(input) THEN EmptyParagraph
  ELSE IF test(HAS_TAG, trim(input)) THEN normalizeRichHtml(input, TRUE)
  ELSE normalizeRichHtml(
         LinesToHtml(split(replaceWith(input, Literal(<<13, 10>>), <<10>>), 10)), TRUE)

stripHtml(input) ==
  replaceWith(replaceWith(replaceWith(replaceWith(input,
    BR_TAG, <<10>>), CLOSE_BLOCK_TAG, <<10>>), ANY_TAG, <<>>), Class({160}), <<32>>)

normalizePosts(posts) ==
  IF posts = <<>> THEN <<EmptyParagraph>> ELSE [k \in 1..Len(posts) |-> toRichHtml(posts[k])]

\* The texts of the posts that show something, and the first of them on one line.
VisibleTexts(posts) ==
  SelectSeq([k \in 1..Len(posts) |-> trim(stripHtml(posts[k]))], LAMBDA value : Len(value) > 0)

FirstLine(first) ==
  IF first = <<>> THEN <<>> ELSE replaceWith(Head(first), Rep(Class(WhiteSpace), 1, 0 - 1), <<32>>)

PreviewCut(first, collapsed, limit) ==
  IF first = <<>> THEN <<40, 69, 109, 112, 116, 121, 41>>                    \* (Empty)
  ELSE slice(collapsed, 0, Min(limit, Len(collapsed)))

PreviewOf(first, limit) == PreviewCut(first, FirstLine(first), limit)

\* Mutant of buildPreview: the preview is not cut.
buildPreview_Uncut(posts) ==
  IF VisibleTexts(posts) = <<>> THEN <<40, 69, 109, 112, 116, 121, 41>>
  ELSE FirstLine(VisibleTexts(posts))

buildPreview(posts) == PreviewOf(VisibleTexts(posts), 80)

\* The draft a user can schedule, and its prepared posts: an empty post, then a visible one.
Drafts == {"d1"}
LongLength == 85
PreviewDrafts == Drafts \cup {"spaced", "long", "blank", "none", "markup", "escaped"}
PreparedPosts(d) ==
  CASE d = "spaced" -> << <<32, 32>>, <<97, 32, 32, 98, 10, 10, 99>>, <<104, 105>> >>
    [] d = "long" -> << <<>>, [i \in 1..LongLength |-> IF i \in {79, 80} THEN 32
                                                       ELSE IF i < 79 THEN 97 ELSE 98] >>
    [] d = "blank" -> << <<>> >>
    [] d = "none" -> <<>>
    [] d = "markup" -> << <<60, 112, 62, 120, 60, 98, 114, 62, 121, 60, 47, 112, 62>> >>
    [] d = "escaped" -> << <<97, 60, 98>> >>
    [] OTHER -> << <<>>, <<104, 105>> >>

getDefaultSchedule(t) == t + DefaultScheduleMinutes

----------------------------------------------------------------------------
\* Queue items

\* The item buildQueueItem returns, given the posts normalizePosts made of the prepared ones.
QueueItemOf(id, cleanPosts, scheduleAt, draft, t) ==
  [ id |-> id,
    publishAt |-> scheduleAt,
    createdAt |-> t,
    updatedAt |-> t,
    preview |-> buildPreview(cleanPosts),
    postCount |-> Len(cleanPosts),
    posts |-> cleanPosts,
    sourceDraftId |-> draft,
    status |-> "pending",
    attemptCount |-> 0,
    maxAttempts |-> DEFAULT_QUEUE_MAX_ATTEMPTS,
    lastAttemptAt |-> NoTime,
    nextRetryAt |-> NoTime,
    lastError |-> NoError ]

buildQueueItem(id, posts, scheduleAt, draft, t) ==
  QueueItemOf(id, normalizePosts(posts), scheduleAt, draft, t)

\* Mutant of publishQueueItem: the published item names another queue item as its source.
publishQueueItem_WrongSource(item, t) ==
  [ sourceQueueId |-> item.id + 1,
    publishedAt |-> t,
    preview |-> item.preview,
    postCount |-> item.postCount,
    posts |-> item.posts,
    sourceDraftId |-> item.sourceDraftId ]

publishQueueItem(item, t) ==
  [ sourceQueueId |-> item.id,
    publishedAt |-> t,
    preview |-> item.preview,
    postCount |-> item.postCount,
    posts |-> item.posts,
    sourceDraftId |-> item.sourceDraftId ]

\* The time an item is sorted by: nextRetryAt of a failed item that has one, else publishAt.
SortAt(item) ==
  IF item.status = "failed" /\ item.nextRetryAt # NoTime THEN item.nextRetryAt ELSE item.publishAt

\* Mutant of sortQueueAsc: the retry time of a failed item is not looked at.
sortQueueAsc_ByPublishAt(a, b) == a.publishAt - b.publishAt

sortQueueAsc(a, b) == SortAt(a) - SortAt(b)

sortPublishedDesc(a, b) == b.publishedAt - a.publishedAt

\* Mutant of SortQueue: the array is left in the order it has.
SortQueue_Unsorted(s) == s

\* Array.prototype.sort is stable: an element goes after the elements that do not compare greater.
RECURSIVE SortQueue(_)
SortQueue(s) ==
  IF s = <<>> THEN <<>>
  ELSE LET sorted == SortQueue(SubSeq(s, 1, Len(s) - 1))
           x == s[Len(s)]
       IN SelectSeq(sorted, LAMBDA e : sortQueueAsc(e, x) <= 0) \o <<x>>
            \o SelectSeq(sorted, LAMBDA e : sortQueueAsc(e, x) > 0)

RECURSIVE SortPublished(_)
SortPublished(s) ==
  IF s = <<>> THEN <<>>
  ELSE LET sorted == SortPublished(SubSeq(s, 1, Len(s) - 1))
           x == s[Len(s)]
       IN SelectSeq(sorted, LAMBDA e : sortPublishedDesc(e, x) <= 0) \o <<x>>
            \o SelectSeq(sorted, LAMBDA e : sortPublishedDesc(e, x) > 0)

\* Mutant of computeRetryTimeIso: the table is indexed by the attempt, not by attempt - 1.
computeRetryTimeIso_OffByOne(from, attempt) ==
  from + retryMinutes[Max(0, Min(Len(retryMinutes) - 1, attempt)) + 1]

computeRetryTimeIso(from, attempt) ==
  LET index == Max(0, Min(Len(retryMinutes) - 1, attempt - 1))
  IN from + retryMinutes[index + 1]

\* Mutants of retryQueueItem: the attempt count, the error or the status survives the reset.
retryQueueItem_KeepsCount(item, t) ==
  [item EXCEPT !.status = "pending", !.publishAt = t, !.updatedAt = t,
               !.lastAttemptAt = NoTime, !.nextRetryAt = NoTime, !.lastError = NoError]

retryQueueItem_KeepsError(item, t) ==
  [item EXCEPT !.status = "pending", !.publishAt = t, !.updatedAt = t, !.attemptCount = 0,
               !.lastAttemptAt = NoTime, !.nextRetryAt = NoTime]

retryQueueItem(item, t) ==
  [item EXCEPT !.status = "pending",
               !.publishAt = t,
               !.updatedAt = t,
               !.attemptCount = 0,
               !.lastAttemptAt = NoTime,
               !.nextRetryAt = NoTime,
               !.lastError = NoError]

\* A number field of a parsed snapshot is a JavaScript value: a number, whole or with a
\* fraction (floor + 1/2), or something that is not a finite number (absent, null, text).
Num(n) == [kind |-> "number", floor |-> n, frac |-> FALSE]
Frac(n) == [kind |-> "number", floor |-> n, frac |-> TRUE]
NotANumber == [kind |-> "undefined", floor |-> 0, frac |-> FALSE]

isFinite(v) == v.kind = "number"
GreaterThanZero(v) == v.floor > 0 \/ (v.floor = 0 /\ v.frac)
AtLeastZero(v) == v.floor >= 0
floor(v) == v.floor

\* normalizeQueueItem repairs an item of a stored or updated workspace.
normalizeQueueItem(input, t) ==
  LET createdAt == IF input.createdAt # NoTime THEN input.createdAt ELSE t
  IN [input EXCEPT
        !.createdAt = createdAt,
        !.updatedAt = IF input.updatedAt # NoTime THEN input.updatedAt ELSE createdAt,
        !.status = IF input.status = "failed" THEN "failed" ELSE "pending",
        !.attemptCount = IF isFinite(input.attemptCount) /\ AtLeastZero(input.attemptCount)
                         THEN Max(0, floor(input.attemptCount)) ELSE 0,
        !.maxAttempts = IF isFinite(input.maxAttempts) /\ GreaterThanZero(input.maxAttempts)
                        THEN floor(input.maxAttempts) ELSE DEFAULT_QUEUE_MAX_ATTEMPTS,
        !.posts = normalizePosts(input.posts),
        !.postCount = IF isFinite(input.postCount) /\ GreaterThanZero(input.postCount)
                      THEN floor(input.postCount) ELSE Max(1, Len(input.posts)),
        !.preview = IF trim(input.preview) # <<>> THEN input.preview
                    ELSE buildPreview(input.posts),
        !.publishAt = IF input.publishAt # NoTime THEN input.publishAt
                      ELSE getDefaultSchedule(t)]

\* The number fields of a queue item of the workbench, as values of a snapshot.
AsSnapshot(item) ==
  [item EXCEPT !.attemptCount = Num(item.attemptCount),
               !.maxAttempts = Num(item.maxAttempts),
               !.postCount = Num(item.postCount)]

\* The queue part of normalizeWorkspaceState, on a snapshot.
normalizeSnapshotQueue(q, t) == SortQueue(MapSeq(LAMBDA item : normalizeQueueItem(item, t), q))

\* The queue part of normalizeWorkspaceState, on the queue of the workbench.
normalizeQueue(q, t) == normalizeSnapshotQueue(MapSeq(AsSnapshot, q), t)

----------------------------------------------------------------------------
\* runDueQueue

\* Mutant of isPendingDue: the status is not looked at.
isPendingDue_IgnoresStatus(item, t) == item.publishAt <= t

isPendingDue(item, t) == item.status = "pending" /\ item.publishAt <= t

\* Mutant of isRetryDue: the retry time is not compared with the clock.
isRetryDue_NoTimeCheck(item, t) ==
  /\ item.status = "failed"
  /\ item.nextRetryAt # NoTime
  /\ item.attemptCount < item.maxAttempts

isRetryDue(item, t) ==
  /\ item.status = "failed"
  /\ item.nextRetryAt # NoTime
  /\ item.nextRetryAt <= t
  /\ item.attemptCount < item.maxAttempts

IsDue(item, t) == isPendingDue(item, t) \/ isRetryDue(item, t)

\* Mutant of attemptedItem: the attempt is stamped but not counted.
attemptedItem_NoIncrement(item, t) == [item EXCEPT !.lastAttemptAt = t, !.updatedAt = t]

attemptedItem(item, t) ==
  [item EXCEPT !.attemptCount = item.attemptCount + 1, !.lastAttemptAt = t, !.updatedAt = t]

\* Mutant of failedItem: a retry is scheduled whether or not attempts remain.
failedItem_AlwaysRetry(item, t) ==
  [attemptedItem(item, t) EXCEPT
     !.status = "failed",
     !.nextRetryAt = computeRetryTimeIso(t, item.attemptCount + 1),
     !.lastError = RetryScheduledError]

\* Mutant of failedItem: the first post counts as delivered and leaves the snapshot.
failedItem_PartialPosts(item, t) ==
  [attemptedItem(item, t) EXCEPT
     !.status = "failed",
     !.posts = Tail(item.posts),
     !.nextRetryAt = IF item.attemptCount + 1 < item.maxAttempts
                     THEN computeRetryTimeIso(t, item.attemptCount + 1) ELSE NoTime,
     !.lastError = IF item.attemptCount + 1 < item.maxAttempts
                   THEN RetryScheduledError ELSE MaxRetriesError]

failedItem(item, t) ==
  LET nextAttempt == item.attemptCount + 1
      retriesRemaining == nextAttempt < item.maxAttempts
      retryAt == IF retriesRemaining THEN computeRetryTimeIso(t, nextAttempt) ELSE NoTime
  IN [attemptedItem(item, t) EXCEPT
        !.status = "failed",
        !.nextRetryAt = retryAt,
        !.lastError = IF retriesRemaining THEN RetryScheduledError ELSE MaxRetriesError]

createActivityLog(level, event, queueItemId, draftId, t) ==
  [at |-> t, level |-> level, event |-> event, message |-> "text",
   queueItemId |-> queueItemId, draftId |-> draftId]

successActivity(item, t) ==
  createActivityLog("info", "queue_publish_succeeded", item.id, item.sourceDraftId, t)

\* Mutant of failureActivity: an exhausted item is logged like a scheduled retry.
failureActivity_AlwaysWarn(item, t) ==
  createActivityLog("warn", "queue_retry_scheduled", item.id, item.sourceDraftId, t)

failureActivity(item, t) ==
  LET retriesRemaining == item.attemptCount + 1 < item.maxAttempts
  IN createActivityLog(IF retriesRemaining THEN "warn" ELSE "error",
                       IF retriesRemaining THEN "queue_retry_scheduled" ELSE "queue_retry_exhausted",
                       item.id, item.sourceDraftId, t)

\* The simulated outcome of an attempt.  A 32-bit number is the pair of its 16-bit halves,
\* the high one first.
XorBit(a, b, weight) == (((a \div weight) + (b \div weight)) % 2) * weight
BitXor(a, b) ==                          \* a ^ b on 16-bit numbers
  XorBit(a, b, 1) + XorBit(a, b, 2) + XorBit(a, b, 4) + XorBit(a, b, 8)
    + XorBit(a, b, 16) + XorBit(a, b, 32) + XorBit(a, b, 64) + XorBit(a, b, 128)
    + XorBit(a, b, 256) + XorBit(a, b, 512) + XorBit(a, b, 1024) + XorBit(a, b, 2048)
    + XorBit(a, b, 4096) + XorBit(a, b, 8192) + XorBit(a, b, 16384) + XorBit(a, b, 32768)

\* hash ^= value.charCodeAt(i); hash = Math.imul(hash, 16777619), where 16777619 is
\* 2^24 + 403: the low 32 bits of the product.
HashStep(hash, unit) ==
  LET low == BitXor(hash[2], unit)
  IN <<(hash[1] * 403 + (low * 403) \div 65536 + (low % 256) * 256) % 65536,
       (low * 403) % 65536>>

RECURSIVE HashPrefix(_, _)
HashPrefix(value, n) ==
  IF n = 0 THEN <<33052, 40389>>          \* 2166136261
  ELSE CHOOSE next \in {HashStep(hash, value[n]) : hash \in {HashPrefix(value, n - 1)}} : TRUE

hashString(value) == HashPrefix(value, Len(value))

Modulo(hash, m) == ((hash[1] % m) * (65536 % m) + hash[2]) % m

\* The text of an id: createId() returns a random UUID, and these are the UUIDs that the
\* ids of the model stand for.
IdText(id) ==
  <<51, 102, 50, 97, 57, 99, 49, 101, 45, 53, 98, 55, 100, 45, 52, 101, 56, 97, 45,
    57, 99, 48, 98, 45>>
    \o (CASE id = 1 -> <<48, 48, 48, 48, 48, 48, 48, 48, 48, 48, 49, 99>>
          [] id = 2 -> <<48, 48, 48, 48, 48, 48, 48, 48, 48, 48, 49, 97>>
          [] OTHER -> <<48, 48, 48, 48, 48, 48, 48, 48, 48, 48, 48, 49>>)

\* Mutant of shouldFailQueueAttempt: a third attempt can fail like a second one.
shouldFailQueueAttempt_ThirdFails(item) ==
  LET seed == hashString(IdText(item.id) \o <<45>> \o item.preview)
  IN IF item.attemptCount <= 1 THEN Modulo(seed, 7) = 0
     ELSE Modulo(seed, 31) = 0

shouldFailQueueAttempt(item) ==
  LET seed == hashString(IdText(item.id) \o <<45>> \o item.preview)
  IN IF item.attemptCount <= 1 THEN Modulo(seed, 7) = 0
     ELSE IF item.attemptCount = 2 THEN Modulo(seed, 31) = 0
     ELSE FALSE

EmptyResult ==
  [remaining |-> <<>>, published |-> <<>>, activity |-> <<>>,
   attempted |-> 0, succeeded |-> 0, failed |-> 0]

\* The forEach of runDueQueue.  failing is the set of item ids whose publish attempt fails:
\* the outcome of an attempt is an input of the loop.
RECURSIVE RunLoop(_, _, _, _)
RunLoop(q, t, failing, acc) ==
  IF q = <<>> THEN acc
  ELSE LET item == Head(q)
           next ==
             IF ~IsDue(item, t)
             THEN [acc EXCEPT !.remaining = Append(@, item)]
             ELSE IF item.id \notin failing
             THEN [acc EXCEPT !.attempted = @ + 1,
                              !.succeeded = @ + 1,
                              !.published = Append(@, publishQueueItem(attemptedItem(item, t), t)),
                              !.activity = Append(@, successActivity(item, t))]
             ELSE [acc EXCEPT !.attempted = @ + 1,
                              !.failed = @ + 1,
                              !.remaining = Append(@, failedItem(item, t)),
                              !.activity = Append(@, failureActivity(item, t))]
       IN RunLoop(Tail(q), t, failing, next)

runDueQueue(q, t, failing) ==
  LET r == RunLoop(q, t, failing, EmptyResult)
  IN [r EXCEPT !.remaining = SortQueue(r.remaining), !.published = SortPublished(r.published)]

----------------------------------------------------------------------------
\* The activity log

sortActivityDesc(a, b) == b.at - a.at

\* Array.prototype.sort is stable: the entries that compare first come first, in the order
\* they have, then the others sorted the same way.  ats are the times of the entries.
RECURSIVE SortActivityBy(_, _)
SortActivityBy(s, ats) ==
  IF ats = {} THEN <<>>
  ELSE LET first == CHOOSE a \in ats :
                      \A b \in ats : sortActivityDesc([at |-> a], [at |-> b]) <= 0
       IN SelectSeq(s, LAMBDA e : e.at = first) \o SortActivityBy(s, ats \ {first})

SortActivity(s) == SortActivityBy(s, {s[i].at : i \in 1..Len(s)})

Slice(s, limit) == SubSeq(s, 1, Min(limit, Len(s)))

\* Mutant of appendActivityLogs: the new entries go to the end and the head is kept.
appendActivityLogs_KeepsHead(current, incoming, limit) == Slice(current \o incoming, limit)

appendActivityLogs(current, incoming, limit) == Slice(SortActivity(incoming \o current), limit)

\* An entry of a stored log: a field that is absent is NoTime, "" or NoMessage.
NoMessage == "undefined"
NoId == 0

normalizeActivityLog(item, t) ==
  [item EXCEPT
     !.at = IF item.at # NoTime THEN item.at ELSE t,
     !.level = IF item.level \in {"warn", "error", "info"} THEN item.level ELSE "info",
     !.event = IF item.event # "" THEN item.event ELSE "unknown"]

normalizeActivityLogs(items, t) ==
  LET kept == SelectSeq(items, LAMBDA item : item.message # NoMessage)
      mapped == [i \in 1..Len(kept) |-> normalizeActivityLog(kept[i], t)]
  IN Slice(SortActivity(mapped), MAX_ACTIVITY_LOGS)

\* createActivityLog gives each entry the id of createId(): the next numbers, in order.
WithIds(entries, n) ==
  [i \in 1..Len(entries) |->
     [id |-> n + i, at |-> entries[i].at, level |-> entries[i].level, event |-> entries[i].event,
      message |-> entries[i].message, queueItemId |-> entries[i].queueItemId,
      draftId |-> entries[i].draftId]]

\* The activity field of an update: appendActivityLogs(prev.activity, entries), then the
\* normalizeWorkspaceState of updateWorkspace.
LogActivity(entries) ==
  /\ IF logging
     THEN /\ nextLogId + Len(entries) <= MaxLogged
          /\ activity' = normalizeActivityLogs(
                            appendActivityLogs(activity, WithIds(entries, nextLogId),
                                               MAX_ACTIVITY_LOGS), now)
          /\ nextLogId' = nextLogId + Len(entries)
     ELSE UNCHANGED <<activity, nextLogId>>
  /\ UNCHANGED logging

QueueIds(q) == {q[i].id : i \in 1..Len(q)}
DueIds(q, t) == {q[i].id : i \in {j \in 1..Len(q) : IsDue(q[j], t)}}

----------------------------------------------------------------------------
\* The workbench: React state, handlers and the scheduler effect

\* last names the operation that produced the state, the queue it read and what
\* runDueQueue returned.
LastOp(op, id, input, result) == [op |-> op, id |-> id, input |-> input, result |-> result]

Init ==
  /\ queue = <<>>
  /\ published = <<>>
  /\ renderQueue = <<>>
  /\ pending = "none"
  /\ now = 0
  /\ nextId = 0
  /\ last = LastOp("init", 0, <<>>, EmptyResult)
  /\ activity = <<>>
  /\ nextLogId = 0
  /\ logging = FALSE
  /\ lint = LintInput(<<>>, <<>>)
  /\ rich = RichInput(<<>>, TRUE)
  /\ xCount = CountInput(0)
  /\ publishState = "idle"

\* Time passes between events; a click handler's update is flushed before anything else happens.
AdvanceClock(t) ==
  /\ pending # "sync"
  /\ t > now
  /\ now' = t
  /\ last' = LastOp("clock", 0, <<>>, EmptyResult)
  /\ UNCHANGED <<queue, published, renderQueue, pending, nextId, lint, rich, xCount, publishState>>
  /\ UNCHANGED logVars

\* countByPost of the posts of a draft: getXCount of what twitterText.parseTweet gives as
\* the weighted length of each prepared post.  A plain short text weighs its length; the
\* text of a post that reaches or passes the limit is not spelled out, its weight is given.
WeightedLengthOf(draft) ==
  CASE draft = "full" -> <<0, X_LIMIT>>
    [] draft = "mixed" -> <<0, X_LIMIT + 1>>
    [] draft = "over" -> <<X_LIMIT + 1, X_LIMIT + 1>>
    [] OTHER -> [i \in 1..Len(PreparedPosts(draft)) |-> Len(PreparedPosts(draft)[i])]

countByPost(draft) ==
  [i \in 1..Len(WeightedLengthOf(draft)) |-> getXCount(WeightedLengthOf(draft)[i])]

\* Mutant of publishReady: one valid post is enough.
publishReady_Some(draft) ==
  \E i \in 1..Len(countByPost(draft)) : countByPost(draft)[i].valid

publishReady(draft) ==
  \A i \in 1..Len(countByPost(draft)) : countByPost(draft)[i].valid

\* queueCurrentDraft: the "Schedule" button.  scheduleAt is workspace.scheduleAt, NoTime when
\* the date input was cleared.
QueueCurrentDraft(draft, scheduleAt) ==
  /\ pending # "sync"
  /\ IF ~publishReady(draft)
     THEN /\ publishState' = "blocked"
          /\ UNCHANGED <<queue, pending, nextId, last>>
          /\ UNCHANGED logVars
     ELSE /\ nextId < MaxItems
          /\ queue' = normalizeQueue(
                         SortQueue(<<buildQueueItem(nextId + 1, PreparedPosts(draft), scheduleAt,
                                                    draft, now)>> \o queue), now)
          /\ last' = LastOp("enqueue", nextId + 1, <<>>, EmptyResult)
          /\ LogActivity(<<createActivityLog("info", "queue_scheduled", nextId + 1, draft, now)>>)
          /\ nextId' = nextId + 1
          /\ pending' = "sync"
          /\ publishState' = "scheduled"
  /\ UNCHANGED <<published, renderQueue, now, lint, rich, xCount>>

\* The update of runDueJobs: prev => ({...prev, queue: result.remaining, published: [...]}).
ApplyRun(result) ==
  /\ Len(published) + result.succeeded <= MaxPublished
  /\ queue' = normalizeQueue(result.remaining, now)
  /\ published' = SortPublished(SortPublished(result.published \o published))
  /\ LogActivity(result.activity)

\* runDueJobs called by the interval timer of the scheduler effect, with the closure of the
\* render that installed the timer.
SchedulerTick(failing, lane) ==
  /\ pending = "none"
  /\ LET result == runDueQueue(renderQueue, now, failing)
     IN /\ last' = LastOp("run", 0, renderQueue, result)
        /\ IF result.attempted = 0
           THEN UNCHANGED <<queue, published, pending>> /\ UNCHANGED logVars
           ELSE ApplyRun(result) /\ pending' = lane
  /\ UNCHANGED <<renderQueue, now, nextId, lint, rich, xCount, publishState>>

\* runDueJobs called by the "Run Due Jobs" button or command.
RunDueJobs(failing) ==
  /\ pending # "sync"
  /\ LET result == runDueQueue(renderQueue, now, failing)
     IN /\ last' = LastOp("run", 0, renderQueue, result)
        /\ IF result.attempted = 0
           THEN UNCHANGED <<queue, published, pending>> /\ UNCHANGED logVars
           ELSE ApplyRun(result) /\ pending' = "sync"
  /\ UNCHANGED <<renderQueue, now, nextId, lint, rich, xCount, publishState>>

\* React commits the pending state; the scheduler effect depends on workspace.queue, so it
\* runs again and calls runDueJobs with the closure of this render.
Render(failing, lane) ==
  /\ pending # "none"
  /\ renderQueue' = queue
  /\ LET result == runDueQueue(queue, now, failing)
     IN /\ last' = LastOp("run", 0, queue, result)
        /\ IF result.attempted = 0
           THEN UNCHANGED <<queue, published>> /\ pending' = "none" /\ UNCHANGED logVars
           ELSE ApplyRun(result) /\ pending' = lane
  /\ UNCHANGED <<now, nextId, lint, rich, xCount, publishState>>

\* publishScheduledItem: the "Publish" button of a rendered queue entry.
PublishScheduledItem(id) ==
  /\ pending # "sync"
  /\ id \in QueueIds(renderQueue)
  /\ LET targets == SelectSeq(queue, LAMBDA item : item.id = id)
     IN IF targets = <<>>
        THEN /\ queue' = normalizeQueue(queue, now)
             /\ UNCHANGED published
             /\ LogActivity(<<>>)
        ELSE /\ Len(published) < MaxPublished
             /\ queue' = normalizeQueue(SelectSeq(queue, LAMBDA item : item.id # id), now)
             /\ published' =
                  SortPublished(SortPublished(<<publishQueueItem(Head(targets), now)>> \o published))
             /\ LogActivity(<<createActivityLog("info", "manual_publish_from_queue", id,
                                                Head(targets).sourceDraftId, now)>>)
  /\ last' = LastOp("publish", id, <<>>, EmptyResult)
  /\ pending' = "sync"
  /\ UNCHANGED <<renderQueue, now, nextId, lint, rich, xCount, publishState>>

\* retryScheduledItem: the "Retry" button, rendered for failed entries only.
RetryScheduledItem(id) ==
  /\ pending # "sync"
  /\ \E i \in 1..Len(renderQueue) : renderQueue[i].id = id /\ renderQueue[i].status = "failed"
  /\ LET target == Head(SelectSeq(renderQueue, LAMBDA item : item.id = id))
         retried == retryQueueItem(target, now)
     IN /\ queue' = normalizeQueue(
                   SortQueue(MapSeq(LAMBDA item : IF item.id = id THEN retried ELSE item, queue)),
                   now)
        /\ LogActivity(<<createActivityLog("info", "manual_retry", id, target.sourceDraftId, now)>>)
  /\ last' = LastOp("retry", id,
                     SelectSeq(renderQueue, LAMBDA item : item.id = id), EmptyResult)
  /\ pending' = "sync"
  /\ UNCHANGED <<published, renderQueue, now, nextId, lint, rich, xCount, publishState>>

\* The "Retry Failed Items" command.
RetryFailedItems ==
  /\ pending # "sync"
  /\ \E i \in 1..Len(renderQueue) : renderQueue[i].status = "failed"
  /\ queue' = normalizeQueue(
                SortQueue(MapSeq(LAMBDA item : IF item.status = "failed"
                                               THEN retryQueueItem(item, now) ELSE item, queue)),
                now)
  /\ LogActivity(<<createActivityLog("info", "bulk_retry", NoId, "undefined", now)>>)
  /\ last' = LastOp("bulk_retry", 0, <<>>, EmptyResult)
  /\ pending' = "sync"
  /\ UNCHANGED <<published, renderQueue, now, nextId, lint, rich, xCount, publishState>>

\* publishCurrentDraft: the "Publish" button of the editor.  The draft is published at once
\* and never enters the queue.
PublishCurrentDraft(draft) ==
  /\ pending # "sync"
  /\ IF ~publishReady(draft)
     THEN /\ publishState' = "blocked"
          /\ UNCHANGED <<queue, published, pending, nextId, last>>
          /\ UNCHANGED logVars
     ELSE /\ nextId < MaxItems
          /\ Len(published) < MaxPublished
          /\ published' =
               SortPublished(SortPublished(
                 <<publishQueueItem(buildQueueItem(nextId + 1, PreparedPosts(draft), now, draft,
                                                   now), now)>> \o published))
          /\ LogActivity(<<createActivityLog("info", "manual_publish", nextId + 1, draft, now)>>)
          /\ last' = LastOp("publish_draft", nextId + 1, <<>>, EmptyResult)
          /\ queue' = normalizeQueue(queue, now)
          /\ nextId' = nextId + 1
          /\ pending' = "sync"
          /\ publishState' = "published"
  /\ UNCHANGED <<renderQueue, now, lint, rich, xCount>>

\* The effect on publishState: a result or a refusal is shown for 1.8 seconds.
ResetPublishState ==
  /\ publishState \notin {"idle", "scheduling", "publishing"}
  /\ publishState' = "idle"
  /\ UNCHANGED <<queue, published, renderQueue, pending, now, nextId, last, lint, rich, xCount>>
  /\ UNCHANGED logVars

\* The instants at which the clock is read: the start, and the instants at which the
\* successive retries of an attempt made at the start fall due.
RECURSIVE SumTo(_, _)
SumTo(s, n) == IF n = 0 THEN 0 ELSE s[n] + SumTo(s, n - 1)
ClockInstants == {SumTo(retryMinutes, n) : n \in 0..Len(retryMinutes)}

ScheduleTimes == ClockInstants \cup {NoTime}

\* The events of the workbench on the queue it has.  lane is how the update of the timer and of the effect is
\* rendered: "sync" before the next event, "async" possibly after a click.
QueueEvents(lane) ==
  \/ \E t \in ClockInstants : AdvanceClock(t)
  \/ \E f \in SUBSET DueIds(renderQueue, now) : SchedulerTick(f, lane)
  \/ \E f \in SUBSET DueIds(renderQueue, now) : RunDueJobs(f)
  \/ \E f \in SUBSET DueIds(queue, now) : Render(f, lane)
  \/ \E id \in 1..MaxItems : PublishScheduledItem(id)
  \/ \E id \in 1..MaxItems : RetryScheduledItem(id)
  \/ RetryFailedItems

Events(lane) ==
  \/ \E d \in Drafts, s \in ScheduleTimes : QueueCurrentDraft(d, s)
  \/ QueueEvents(lane)

\* The workbench after hydration from a stored workspace: the stored queue went through
\* normalizeWorkspaceState, and the render that runs the scheduler effect is due.  The
\* stored queue holds one unattempted item whose maxAttempts is any positive number.
StoredItem(id, maxAttempts) ==
  [buildQueueItem(id, PreparedPosts("d1"), 0, "d1", 0) EXCEPT !.maxAttempts = maxAttempts]

StoredQueues == {<<StoredItem(1, m)>> : m \in 1..MaxStoredAttempts}

InitStored ==
  /\ \E stored \in StoredQueues :
       /\ queue = normalizeQueue(stored, 0)
       /\ nextId = MaxItems
  /\ published = <<>>
  /\ renderQueue = <<>>
  /\ pending = "sync"
  /\ now = 0
  /\ last = LastOp("load", 0, <<>>, EmptyResult)
  /\ activity = <<>>
  /\ nextLogId = 0
  /\ logging = FALSE
  /\ lint = LintInput(<<>>, <<>>)
  /\ rich = RichInput(<<>>, TRUE)
  /\ xCount = CountInput(0)
  /\ publishState = "idle"

\* The workbench after hydration, at minute 2, from a snapshot that need not be well formed:
\* one queue item whose maxAttempts, attemptCount, status, timestamps and nextRetryAt are
\* absent, out of range, fractional or in order.
SnapshotTimes ==
  { [createdAt |-> 0, updatedAt |-> 0, publishAt |-> 0],
    [createdAt |-> 0, updatedAt |-> NoTime, publishAt |-> 0],
    [createdAt |-> 0, updatedAt |-> 0, publishAt |-> NoTime],
    [createdAt |-> NoTime, updatedAt |-> NoTime, publishAt |-> NoTime] }

SnapshotItem(status, attemptCount, maxAttempts, times, nextRetryAt) ==
  [AsSnapshot(buildQueueItem(1, PreparedPosts("d1"), times.publishAt, "d1", 0)) EXCEPT
     !.status = status,
     !.attemptCount = attemptCount,
     !.maxAttempts = maxAttempts,
     !.createdAt = times.createdAt,
     !.updatedAt = times.updatedAt,
     !.nextRetryAt = nextRetryAt]

SnapshotItems ==
  { SnapshotItem(status, attemptCount, maxAttempts, times, nextRetryAt) :
      status \in {"pending", "failed", "published"},
      attemptCount \in {NotANumber, Num(0 - 1), Num(0), Frac(1), Num(3), Num(7)},
      maxAttempts \in {NotANumber, Num(0 - 1), Num(0), Frac(0), Frac(2), Num(1), Num(3)},
      times \in SnapshotTimes,
      nextRetryAt \in {NoTime, 2} }

InitImport ==
  /\ \E item \in SnapshotItems :
       /\ queue = normalizeSnapshotQueue(<<item>>, 2)
       /\ last = LastOp("load", item.id, <<item>>, EmptyResult)
  /\ published = <<>>
  /\ renderQueue = <<>>
  /\ pending = "sync"
  /\ now = 2
  /\ nextId = MaxItems
  /\ activity = <<>>
  /\ nextLogId = 0
  /\ logging = FALSE
  /\ lint = LintInput(<<>>, <<>>)
  /\ rich = RichInput(<<>>, TRUE)
  /\ xCount = CountInput(0)
  /\ publishState = "idle"

\* The workbench after hydration from a stored workspace with an activity log and an empty
\* queue.  The stored log is empty, or one entry short of the cap as the workbench saves it,
\* or full with entries stamped later than the clock, or over the cap and out of order with
\* absent and invalid fields.
StoredLog(n, ats, wellFormed) ==
  [i \in 1..n |->
     [id |-> 0 - i,
      at |-> ats[(i % Len(ats)) + 1],
      level |-> IF wellFormed \/ i % 5 # 0 THEN "info" ELSE "debug",
      event |-> IF wellFormed \/ i % 7 # 0 THEN "queue_scheduled" ELSE "",
      message |-> IF wellFormed \/ i % 50 # 0 THEN "text" ELSE NoMessage,
      queueItemId |-> NoId,
      draftId |-> "undefined"]]

StoredLogs ==
  { <<>>,
    StoredLog(MAX_ACTIVITY_LOGS - 1, <<0>>, TRUE),
    StoredLog(MAX_ACTIVITY_LOGS, <<12>>, TRUE),
    StoredLog(MAX_ACTIVITY_LOGS + 2, <<2, NoTime, 0, 12>>, FALSE) }

InitActivity ==
  /\ \E stored \in StoredLogs :
       /\ activity = normalizeActivityLogs(stored, 0)
       /\ last = LastOp("load", 0, stored, EmptyResult)
  /\ queue = <<>>
  /\ published = <<>>
  /\ renderQueue = <<>>
  /\ pending = "sync"
  /\ now = 0
  /\ nextId = 0
  /\ nextLogId = 0
  /\ logging = TRUE
  /\ lint = LintInput(<<>>, <<>>)
  /\ rich = RichInput(<<>>, TRUE)
  /\ xCount = CountInput(0)
  /\ publishState = "idle"

\* Every update is rendered before the next event is handled.
Next == Events("sync")

Spec == Init /\ [][Next]_vars

\* A click can be handled between an update of the timer and its render.
NextRace == Events("async")

SpecRace == Init /\ [][NextRace]_vars

\* The stored items run through the queue; nothing is scheduled meanwhile.
NextStored == QueueEvents("sync")

SpecStored == InitStored /\ [][NextStored]_vars

\* The imported item runs through the queue.
SpecImport == InitImport /\ [][NextStored]_vars

\* The workbench with its activity log recorded.
NextActivity ==
  \/ Events("sync")
  \/ \E d \in Drafts : PublishCurrentDraft(d)

SpecActivity == InitActivity /\ [][NextActivity]_vars

----------------------------------------------------------------------------
\* The lint engine at work on one text

\* the default rule state, and every rule enabled
RuleStates == {createDefaultRuleState, [id \in Range(RuleIds) |-> TRUE]}

\* Texts: every string of at most MaxLen characters over one of four small alphabets,
\* the default whitelist term with a neighbour on either side, a text that reads like a
\* placeholder token, and a run of marks next to a CJK character.  The whitelist matters to the texts of the first alphabet.
SpacingChars == {20013, 97, 49, 32}       \* a CJK character, a, 1, space
OtherAlphabets ==
  {{33, 12290, 20013, 46},                \* !, ideographic full stop, CJK, .
   {8212, 45, 32, 8230},                  \* dash, hyphen, space, ellipsis
   {65297, 65292, 65288, 32}}             \* full-width 1, full-width comma and (, space
Strings(chars) == UNION {[1..n -> chars] : n \in 0..MaxLen}
SampleTexts ==
  {before \o DEFAULT_WHITELIST[1] \o after :
     before \in {<<>>, <<20013>>, <<97>>}, after \in {<<>>, <<20013>>, <<97>>}}
    \cup {Token(0)}                       \* a text that reads __TERM_0__
Whitelists == {<<>>, <<<<32, 97>>, <<97>>, <<32>>>>}   \* nothing, or " a", "a" and " "

LintInputs ==
  {LintInput(text, whitelist) :
     text \in Strings(SpacingChars) \cup SampleTexts, whitelist \in Whitelists}
    \cup {LintInput(text, <<>>) :
            text \in UNION {Strings(chars) : chars \in OtherAlphabets} \cup {<<33, 33, 33, 20013>>}}

InitLint ==
  /\ queue = <<>>
  /\ published = <<>>
  /\ renderQueue = <<>>
  /\ pending = "none"
  /\ now = 0
  /\ nextId = 0
  /\ last = LastOp("init", 0, <<>>, EmptyResult)
  /\ activity = <<>>
  /\ nextLogId = 0
  /\ logging = FALSE
  /\ lint \in LintInputs
  /\ rich = RichInput(<<>>, TRUE)
  /\ xCount = CountInput(0)
  /\ publishState = "idle"

LintText(ruleState) ==
  /\ lint' = [lint EXCEPT !.op = "lint", !.rule = "none", !.times = 0, !.input = lint.text,
                          !.ruleState = ruleState,
                          !.detected = detectIssues(lint.text, ruleState, lint.whitelist),
                          !.issues = lintText(lint.text, ruleState, lint.whitelist)]
  /\ UNCHANGED <<queue, published, renderQueue, pending, now, nextId, last, rich, xCount, publishState>>
  /\ UNCHANGED logVars

ApplyRuleFix(ruleId) ==
  /\ lint' = [lint EXCEPT !.op = "fix", !.rule = ruleId,
                          !.times = IF lint.op = "fix" /\ lint.rule = ruleId THEN 2 ELSE 1,
                          !.input = IF lint.op = "fix" /\ lint.rule = ruleId THEN lint.input
                                    ELSE lint.text,
                          !.text = applyRuleFix(lint.text, ruleId, lint.whitelist),
                          !.ruleState = createDefaultRuleState,
                          !.detected = <<>>, !.issues = <<>>]
  /\ UNCHANGED <<queue, published, renderQueue, pending, now, nextId, last, rich, xCount, publishState>>
  /\ UNCHANGED logVars

\* lintText on the result of a fix, with the rule of the fix alone enabled
LintFixedText ==
  /\ lint.op = "fix"
  /\ LET ruleState == [id \in Range(RuleIds) |-> id = lint.rule]
     IN lint' = [lint EXCEPT !.op = "lint", !.times = 0, !.input = lint.text,
                             !.ruleState = ruleState,
                             !.detected = detectIssues(lint.text, ruleState, lint.whitelist),
                             !.issues = lintText(lint.text, ruleState, lint.whitelist)]
  /\ UNCHANGED <<queue, published, renderQueue, pending, now, nextId, last, rich, xCount, publishState>>
  /\ UNCHANGED logVars

NextLint ==
  \/ \E ruleState \in RuleStates : LintText(ruleState)
  \/ LintFixedText
  \/ \E i \in 1..Len(RULE_DEFINITIONS) :
       RULE_DEFINITIONS[i].autofix /\ ApplyRuleFix(RULE_DEFINITIONS[i].id)

SpecLint == InitLint /\ [][NextLint]_vars

\* The "Fix all" of the workbench, pressed once and then again on its own result with the
\* same rule state and whitelist.  input is the text the last pass started from.  Beside
\* the texts of the lint engine there is a CJK character followed by a full-width digit.
FixAllInputs == LintInputs \cup {LintInput(<<20013, 65297>>, <<>>)}

InitFixAll ==
  /\ queue = <<>>
  /\ published = <<>>
  /\ renderQueue = <<>>
  /\ pending = "none"
  /\ now = 0
  /\ nextId = 0
  /\ last = LastOp("init", 0, <<>>, EmptyResult)
  /\ activity = <<>>
  /\ nextLogId = 0
  /\ logging = FALSE
  /\ lint \in FixAllInputs
  /\ rich = RichInput(<<>>, TRUE)
  /\ xCount = CountInput(0)
  /\ publishState = "idle"

ApplyAllFixes(ruleState) ==
  /\ lint.op = "fixAll" => lint.times < 2 /\ ruleState = lint.ruleState
  /\ lint' = [lint EXCEPT !.op = "fixAll", !.rule = "none",
                          !.times = IF lint.op = "fixAll" THEN 2 ELSE 1,
                          !.input = lint.text,
                          !.text = applyAllFixes(lint.text, ruleState, lint.whitelist),
                          !.ruleState = ruleState,
                          !.detected = <<>>, !.issues = <<>>]
  /\ UNCHANGED <<queue, published, renderQueue, pending, now, nextId, last, rich, xCount, publishState>>
  /\ UNCHANGED logVars

NextFixAll == \E ruleState \in RuleStates : ApplyAllFixes(ruleState)

SpecFixAll == InitFixAll /\ [][NextFixAll]_vars

\* The formatting functions on the markup of a post: up to MaxNodes nodes, each a
\* paragraph of up to MaxNodes pieces or a run of text, parsed with and without a document.
MaxNodes == 2
InlinePieces == {<<97>>, <<32>>, <<60, 98, 114, 62>>}
Paragraphs ==
  {<<60, 112, 62>> \o Flatten(pieces) \o <<60, 47, 112, 62>> :
     pieces \in UNION {[1..n -> InlinePieces] : n \in 0..MaxNodes}}
TextRuns == {<<97>>, <<32>>, <<97, 10, 97>>}
Markups == {Flatten(nodes) : nodes \in UNION {[1..n -> Paragraphs \cup TextRuns] : n \in 0..MaxNodes}}

InitRich ==
  /\ queue = <<>>
  /\ published = <<>>
  /\ renderQueue = <<>>
  /\ pending = "none"
  /\ now = 0
  /\ nextId = 0
  /\ last = LastOp("init", 0, <<>>, EmptyResult)
  /\ activity = <<>>
  /\ nextLogId = 0
  /\ logging = FALSE
  /\ lint = LintInput(<<>>, <<>>)
  /\ rich \in {RichInput(text, window) : text \in Markups, window \in BOOLEAN}
  /\ xCount = CountInput(0)
  /\ publishState = "idle"

ToLintText ==
  /\ rich.times < 2
  /\ rich' = [rich EXCEPT !.op = "toLintText", !.times = rich.times + 1,
                          !.text = toLintText(rich.text, rich.window)]
  /\ UNCHANGED <<queue, published, renderQueue, pending, now, nextId, last, lint, xCount, publishState>>
  /\ UNCHANGED logVars

NextRich == ToLintText

SpecRich == InitRich /\ [][NextRich]_vars

\* The character counter on texts of a weighted length of nothing, and of up to
\* CountMargin under and over the limit.
CountMargin == 30
WeightedLengths == {0} \cup ((X_LIMIT - CountMargin)..(X_LIMIT + CountMargin))

InitCount ==
  /\ queue = <<>>
  /\ published = <<>>
  /\ renderQueue = <<>>
  /\ pending = "none"
  /\ now = 0
  /\ nextId = 0
  /\ last = LastOp("init", 0, <<>>, EmptyResult)
  /\ activity = <<>>
  /\ nextLogId = 0
  /\ logging = FALSE
  /\ lint = LintInput(<<>>, <<>>)
  /\ rich = RichInput(<<>>, TRUE)
  /\ xCount \in {CountInput(weightedLength) : weightedLength \in WeightedLengths}
  /\ publishState = "idle"

GetXCount ==
  /\ xCount.op = "input"
  /\ xCount' = [xCount EXCEPT !.op = "getXCount", !.result = getXCount(xCount.weightedLength)]
  /\ UNCHANGED <<queue, published, renderQueue, pending, now, nextId, last, lint, rich, publishState>>
  /\ UNCHANGED logVars

NextCount == GetXCount

SpecCount == InitCount /\ [][NextCount]_vars

\* The workbench scheduling and publishing drafts of every shape of text, now and later.
NextPreview ==
  \/ \E d \in PreviewDrafts, s \in {0, DefaultScheduleMinutes} : QueueCurrentDraft(d, s)
  \/ \E d \in PreviewDrafts : PublishCurrentDraft(d)
  \/ Render({}, "sync")
  \/ RunDueJobs({})
  \/ \E id \in 1..MaxItems : PublishScheduledItem(id)

SpecPreview == Init /\ [][NextPreview]_vars

\* The workbench with the simulated outcome of attempts: an attempt fails when
\* shouldFailQueueAttempt says so.  Drafts are scheduled for now or for a minute later.
\* The timer fires every 25 seconds and delays are counted in minutes, so the clock moves
\* from one instant at which an item falls due to the next, once the items due have been
\* attempted.
SimulatedDrafts == {"d1", "markup"}

ShouldFailIds(q, t) ==
  {q[i].id : i \in {j \in 1..Len(q) : IsDue(q[j], t) /\ shouldFailQueueAttempt(attemptedItem(q[j], t))}}

DueInstants(q) ==
  {q[i].publishAt : i \in {j \in 1..Len(q) : q[j].status = "pending"}}
    \cup {q[i].nextRetryAt : i \in {j \in 1..Len(q) : /\ q[j].status = "failed"
                                                      /\ q[j].nextRetryAt # NoTime
                                                      /\ q[j].attemptCount < q[j].maxAttempts}}

AdvanceToDue ==
  /\ pending = "none"
  /\ DueIds(queue, now) = {}
  /\ \E t \in DueInstants(queue) :
       /\ t > now
       /\ \A other \in DueInstants(queue) : other > now => t <= other
       /\ AdvanceClock(t)

SimulatedRender(lane) == Render(ShouldFailIds(queue, now), lane)
SimulatedTick(lane) == SchedulerTick(ShouldFailIds(renderQueue, now), lane)

SimulatedEvents(lane) ==
  \/ \E d \in SimulatedDrafts, s \in {now, now + 1} : QueueCurrentDraft(d, s)
  \/ AdvanceToDue
  \/ SimulatedTick(lane)
  \/ SimulatedRender(lane)
  \/ RunDueJobs(ShouldFailIds(renderQueue, now))

NextSimulated == SimulatedEvents("async")

\* When each of the three steps the program takes by itself can be taken: time can pass to
\* the next due instant, the timer finds something due in the queue of its closure, an
\* update waits for its commit.  MaxPublished caps the exploration and is no guard of the
\* program, so it is no part of these conditions.
AdvanceReady ==
  /\ pending = "none"
  /\ DueIds(queue, now) = {}
  /\ \E t \in DueInstants(queue) : t > now

TickReady == pending = "none" /\ DueIds(renderQueue, now) # {}

RenderReady == pending # "none"

\* Weak fairness of the three steps, WF_vars(A), written out as "infinitely often not ready
\* or infinitely often taken": time passes, the interval timer of the scheduler effect keeps
\* firing and React commits every pending update.
SpecSimulated ==
  /\ Init
  /\ [][NextSimulated]_vars
  /\ ([]<>(~AdvanceReady) \/ []<><<AdvanceToDue>>_vars)
  /\ ([]<>(~TickReady) \/ []<><<SimulatedTick("async")>>_vars)
  /\ ([]<>(~RenderReady) \/ []<><<SimulatedRender("async")>>_vars)

\* The Schedule and Publish buttons pressed on drafts whose posts are all within the
\* limit ("d1", and "full" with a post exactly at the limit) and on drafts with a post
\* over it ("mixed", "over"), with the activity log recorded.
GateDrafts == {"d1", "full", "mixed", "over"}

InitGate ==
  /\ queue = <<>>
  /\ published = <<>>
  /\ renderQueue = <<>>
  /\ pending = "none"
  /\ now = 0
  /\ nextId = 0
  /\ last = LastOp("init", 0, <<>>, EmptyResult)
  /\ activity = <<>>
  /\ nextLogId = 0
  /\ logging = TRUE
  /\ lint = LintInput(<<>>, <<>>)
  /\ rich = RichInput(<<>>, TRUE)
  /\ xCount = CountInput(0)
  /\ publishState = "idle"

NextGate ==
  \/ \E d \in GateDrafts, s \in ScheduleTimes : QueueCurrentDraft(d, s)
  \/ \E d \in GateDrafts : PublishCurrentDraft(d)
  \/ ResetPublishState
  \/ \E t \in ClockInstants : AdvanceClock(t)
  \/ \E f \in SUBSET DueIds(queue, now) : Render(f, "sync")

SpecGate == InitGate /\ [][NextGate]_vars

----------------------------------------------------------------------------
\* Properties.  They are stated with their own reading of "due" and of the
\* "effective due time", not with the operators of the model.

ClaimDue(item, t) ==
  \/ item.status = "pending" /\ item.publishAt <= t
  \/ /\ item.status = "failed"
     /\ item.nextRetryAt # NoTime
     /\ item.nextRetryAt <= t
     /\ item.attemptCount < item.maxAttempts

EffectiveDue(item) ==
  IF item.status = "failed" /\ item.nextRetryAt # NoTime THEN item.nextRetryAt ELSE item.publishAt

Terminal(item) == item.status = "failed" /\ item.attemptCount >= item.maxAttempts

\* The ids runDueQueue attempted: one activity entry is returned per attempt.
AttemptedIds(r) == {r.activity[k].queueItemId : k \in 1..Len(r.activity)}

PublishedIds(p) == {p[k].sourceQueueId : k \in 1..Len(p)}

ItemOf(q, id) == CHOOSE x \in Range(q) : x.id = id

\* C1: every queue item has attemptCount <= maxAttempts, in every state reached from the
\* empty queue by scheduling, run-due with any outcome, retry and manual publish.
C1_AttemptsWithinMax ==
  \A i \in 1..Len(queue) : queue[i].attemptCount <= queue[i].maxAttempts

\* An item that used up all its attempts is in the queue.
C1_Witness ==
  \E i \in 1..Len(queue) :
    queue[i].status = "failed" /\ queue[i].attemptCount = queue[i].maxAttempts

\* C2: a failed item that used up its attempts has no nextRetryAt; a failed item has a
\* nextRetryAt only while attemptCount < maxAttempts.
C2_TerminalHasNoRetry ==
  \A i \in 1..Len(queue) :
    /\ Terminal(queue[i]) => queue[i].nextRetryAt = NoTime
    /\ (queue[i].status = "failed" /\ queue[i].nextRetryAt # NoTime)
         => queue[i].attemptCount < queue[i].maxAttempts

\* A run has just left an item terminally failed, beside or after one that awaits a retry.
C2_Witness ==
  /\ last.op = "run"
  /\ \E i \in 1..Len(last.result.remaining) :
       /\ Terminal(last.result.remaining[i])
       /\ last.result.remaining[i].lastAttemptAt = now
       /\ last.result.remaining[i].nextRetryAt = NoTime

\* C3: at most one PublishedItem has a given sourceQueueId, and no item id is both in the
\* queue and in the published history, whatever the interleaving of scheduler ticks,
\* manual runs, manual publishes and retries.
C3_PublishedOnce ==
  /\ \A i, j \in 1..Len(published) :
       published[i].sourceQueueId = published[j].sourceQueueId => i = j
  /\ QueueIds(queue) \cap PublishedIds(published) = {}

\* C4: runDueQueue attempts exactly the items that are due, and returns every other item
\* in remaining as it was.
C4_AttemptsExactlyDue ==
  last.op = "run" =>
    /\ \A i \in 1..Len(last.input) :
         /\ ClaimDue(last.input[i], now) <=> last.input[i].id \in AttemptedIds(last.result)
         /\ ~ClaimDue(last.input[i], now) => last.input[i] \in Range(last.result.remaining)
    /\ last.result.attempted = Cardinality({i \in 1..Len(last.input) : ClaimDue(last.input[i], now)})

\* A run met a due item, a pending item scheduled for later and a failed item whose retry
\* time has not come or whose attempts are used up.
C4_Witness ==
  /\ last.op = "run"
  /\ \E i, j \in 1..Len(last.input) :
       /\ ClaimDue(last.input[i], now)
       /\ ~ClaimDue(last.input[j], now)
       /\ last.input[j].status = "failed"
       /\ last.input[j].nextRetryAt > now

\* The items of a run's input whose attempt failed: due, and still in remaining.
FailedInRun(x) ==
  ClaimDue(x, now) /\ x.id \in QueueIds(last.result.remaining)

\* C5: a due item whose attempt fails with attempts left stays in the queue, out of the
\* published history, with status failed, attemptCount one higher, lastAttemptAt = now,
\* lastError set and nextRetryAt strictly after now, and is due again at that time.
C5_FailedAttemptSchedulesRetry ==
  last.op = "run" =>
    \A i \in 1..Len(last.input) :
      LET x == last.input[i]
      IN (FailedInRun(x) /\ x.attemptCount + 1 < x.maxAttempts) =>
           LET y == ItemOf(last.result.remaining, x.id)
           IN /\ y.status = "failed"
              /\ y.attemptCount = x.attemptCount + 1
              /\ y.lastAttemptAt = now
              /\ y.lastError # NoError
              /\ y.nextRetryAt # NoTime
              /\ y.nextRetryAt > now
              /\ ~ClaimDue(y, now)
              /\ ClaimDue(y, y.nextRetryAt)
              /\ y \in Range(queue)
              /\ x.id \notin PublishedIds(last.result.published)
              /\ x.id \notin PublishedIds(published)

\* The second attempt of an item has just failed, and a third is left.
C5_Witness ==
  /\ last.op = "run"
  /\ \E i \in 1..Len(last.input) :
       /\ FailedInRun(last.input[i])
       /\ last.input[i].attemptCount = 1
       /\ last.input[i].maxAttempts = 3

\* The retry table as the claim reads it: by the number of the attempt that failed.
ClaimDelay(n) == IF n = 1 THEN 2 ELSE IF n = 2 THEN 10 ELSE 30

\* C6 as stated: after the n-th failed attempt nextRetryAt = now + 2, 10, 30 minutes for
\* n = 1, 2, >= 3, whatever maxAttempts is.
C6_RetryDelayAlways ==
  last.op = "run" =>
    \A i \in 1..Len(last.input) :
      LET x == last.input[i]
      IN FailedInRun(x) =>
           ItemOf(last.result.remaining, x.id).nextRetryAt = now + ClaimDelay(x.attemptCount + 1)

\* C6: after the n-th failed attempt nextRetryAt = now + 2, 10, 30 minutes for n = 1, 2,
\* >= 3 when n < maxAttempts, for every maxAttempts; when n >= maxAttempts there is no
\* nextRetryAt.
C6_RetryDelayWhileAttemptsRemain ==
  last.op = "run" =>
    \A i \in 1..Len(last.input) :
      LET x == last.input[i]
          n == x.attemptCount + 1
      IN FailedInRun(x) =>
           LET y == ItemOf(last.result.remaining, x.id)
           IN /\ n < x.maxAttempts => y.nextRetryAt = now + ClaimDelay(n)
              /\ n >= x.maxAttempts => y.nextRetryAt = NoTime

\* A fourth attempt has failed with a fifth left: the delay is the last entry of the table.
C6_Witness ==
  /\ last.op = "run"
  /\ \E i \in 1..Len(last.input) :
       /\ FailedInRun(last.input[i])
       /\ last.input[i].attemptCount = 3
       /\ ItemOf(last.result.remaining, last.input[i].id).nextRetryAt = now + 30

\* C7, the run: a terminally failed item of the input is not attempted and is returned, and
\* kept in the queue, as it was.
C7_RunLeavesTerminal ==
  last.op = "run" =>
    \A i \in 1..Len(last.input) :
      Terminal(last.input[i]) =>
        /\ last.input[i].id \notin AttemptedIds(last.result)
        /\ last.input[i] \in Range(last.result.remaining)
        /\ last.input[i] \in Range(queue)

\* C7, the retry: a terminally failed item that was retried is due.
C7_RetriedIsDue ==
  (last.op = "retry" /\ Terminal(last.input[1])) =>
    \E i \in 1..Len(queue) : queue[i].id = last.id /\ ClaimDue(queue[i], now)

\* C7, the run after the retry attempts the item.
C7_NextRunAttempts ==
  (last.op = "retry" /\ Terminal(last.input[1]) /\ last'.op = "run")
    => last.id \in AttemptedIds(last'.result)

\* C7: a terminally failed item is left unattempted and unchanged by every runDueQueue call
\* until retryQueueItem is applied to it; then it is due, and the next call attempts it.
C7_TerminalUntilRetry ==
  [](C7_RunLeavesTerminal /\ C7_RetriedIsDue) /\ [][C7_NextRunAttempts]_vars

\* A run, later than the last attempt of a terminally failed item, attempted another item
\* and left that one.
C7_Witness ==
  /\ last.op = "run"
  /\ last.result.attempted > 0
  /\ \E i \in 1..Len(last.input) :
       /\ Terminal(last.input[i])
       /\ last.input[i].lastAttemptAt < now
       /\ last.input[i] \in Range(queue)

\* C8: a step of retryScheduledItem turns the failed item into a fresh pending one with
\* publishAt = now and leaves its id, posts, preview, postCount and maxAttempts and every
\* other item as they were; it acts on failed items only.
C8_RetryStep ==
  last'.op = "retry" =>
    /\ last'.id \in QueueIds(queue)
    /\ last'.id \in QueueIds(queue')
    /\ LET x == ItemOf(queue, last'.id)
           y == ItemOf(queue', last'.id)
       IN /\ x.status = "failed"
          /\ y.status = "pending"
          /\ y.attemptCount = 0
          /\ y.lastAttemptAt = NoTime
          /\ y.nextRetryAt = NoTime
          /\ y.lastError = NoError
          /\ y.publishAt = now
          /\ y.id = x.id
          /\ y.posts = x.posts
          /\ y.preview = x.preview
          /\ y.postCount = x.postCount
          /\ y.maxAttempts = x.maxAttempts
          /\ y.sourceDraftId = x.sourceDraftId
          /\ y.createdAt = x.createdAt
    /\ Len(queue') = Len(queue)
    /\ \A i \in 1..Len(queue) : queue[i].id # last'.id => queue[i] \in Range(queue')
    /\ published' = published

C9_QueueSorted ==
  \A i, j \in 1..Len(queue) : i < j => EffectiveDue(queue[i]) <= EffectiveDue(queue[j])

\* Two items are ordered by a retry time against the order of their publishAt.
C9_Witness ==
  \E i, j \in 1..Len(queue) :
    /\ i < j
    /\ EffectiveDue(queue[i]) < EffectiveDue(queue[j])
    /\ queue[i].publishAt > queue[j].publishAt

C11_FailedAttemptAllOrNothing ==
  last.op = "run" =>
    \A i \in 1..Len(last.input) :
      LET x == last.input[i]
      IN FailedInRun(x) =>
           LET y == ItemOf(last.result.remaining, x.id)
           IN /\ y.posts = x.posts
              /\ y.postCount = x.postCount
              /\ y.preview = x.preview
              /\ y.publishAt = x.publishAt
              /\ y.sourceDraftId = x.sourceDraftId
              /\ y = [x EXCEPT !.attemptCount = y.attemptCount,
                               !.status = y.status,
                               !.lastAttemptAt = y.lastAttemptAt,
                               !.updatedAt = y.updatedAt,
                               !.nextRetryAt = y.nextRetryAt,
                               !.lastError = y.lastError]
              /\ Cardinality({j \in 1..Len(last.result.remaining) :
                                last.result.remaining[j].id = x.id}) = 1
              /\ x.id \notin PublishedIds(last.result.published)
              /\ y \in Range(queue)

\* The attempt of an item of two posts has failed.
C11_Witness ==
  /\ last.op = "run"
  /\ \E i \in 1..Len(last.input) :
       /\ FailedInRun(last.input[i])
       /\ Len(last.input[i].posts) = 2
       /\ last.input[i].postCount = 2
       /\ ItemOf(queue, last.input[i].id).attemptCount = last.input[i].attemptCount + 1

\* C12: runDueQueue returns, with attempted = number of due items = succeeded + failed, as
\* many PublishedItems as succeeded, and one activity entry per attempted item: info for a
\* published item, warn for a failure with a retry scheduled, error for an exhausted one.
C12_RunReportsCounts ==
  last.op = "run" =>
    LET r == last.result
        due == {i \in 1..Len(last.input) : ClaimDue(last.input[i], now)}
    IN /\ r.attempted = Cardinality(due)
       /\ r.attempted = r.succeeded + r.failed
       /\ Len(r.published) = r.succeeded
       /\ Len(r.activity) = r.attempted
       /\ Len(r.remaining) = Len(last.input) - r.succeeded
       /\ \A i \in due :
            Cardinality({k \in 1..Len(r.activity) :
                           r.activity[k].queueItemId = last.input[i].id}) = 1
       /\ \A k \in 1..Len(r.activity) :
            LET e == r.activity[k]
            IN IF e.queueItemId \in PublishedIds(r.published)
               THEN e.level = "info" /\ e.queueItemId \notin QueueIds(r.remaining)
               ELSE /\ e.queueItemId \in QueueIds(r.remaining)
                    /\ LET y == ItemOf(r.remaining, e.queueItemId)
                       IN /\ y.status = "failed"
                          /\ y.nextRetryAt # NoTime => e.level = "warn"
                          /\ y.nextRetryAt = NoTime => e.level = "error"

\* One run published an item and exhausted the attempts of another.
C12_Witness ==
  /\ last.op = "run"
  /\ last.result.attempted = 2
  /\ \E k, l \in 1..Len(last.result.activity) :
       last.result.activity[k].level = "info" /\ last.result.activity[l].level = "error"

LogIds(a) == {a[k].id : k \in 1..Len(a)}

\* C13, the state: the log holds at most 80 entries and is sorted descending by time.
C13_CappedAndSorted ==
  /\ Len(activity) <= 80
  /\ \A k, l \in 1..Len(activity) : k < l => activity[k].at >= activity[l].at

\* C13, the load: a stored entry that is not in the loaded log is without a message or is
\* no newer than every entry kept, and nothing was dropped while there was room.
C13_LoadDropsOldest ==
  last.op = "load" =>
    LET stored == last.input
        usable == {i \in 1..Len(stored) : stored[i].message # NoMessage}
        StoredAt(i) == IF stored[i].at = NoTime THEN now ELSE stored[i].at
    IN /\ Len(activity) = IF Cardinality(usable) < 80 THEN Cardinality(usable) ELSE 80
       /\ LogIds(activity) \subseteq {stored[i].id : i \in usable}
       /\ \A i \in usable :
            stored[i].id \notin LogIds(activity) =>
              \A k \in 1..Len(activity) : StoredAt(i) <= activity[k].at

\* C13, the step: an operation that appends keeps the newest 80 of the old entries and the
\* new ones; an entry it drops, old or new, is no newer than every entry kept.
C13_AppendStep ==
  LET created == (nextLogId + 1)..nextLogId'
  IN (logging /\ created # {}) =>
       /\ Len(activity') = IF Len(activity) + Cardinality(created) < 80
                           THEN Len(activity) + Cardinality(created) ELSE 80
       /\ LogIds(activity') \subseteq LogIds(activity) \cup created
       /\ \A k \in 1..Len(activity') :
            \/ activity'[k] \in Range(activity)
            \/ activity'[k].id \in created /\ activity'[k].at = now
       /\ \A j \in 1..Len(activity) :
            activity[j].id \notin LogIds(activity') =>
              \A k \in 1..Len(activity') : activity[j].at <= activity'[k].at
       /\ \A n \in created :
            n \notin LogIds(activity') => \A k \in 1..Len(activity') : now <= activity'[k].at

\* C13: after load, enqueue, run-due, retry and manual publish the activity log holds at
\* most 80 entries, sorted descending by time, and the entries dropped at the cap are the
\* oldest.
C13_ActivityCapped ==
  [](C13_CappedAndSorted /\ C13_LoadDropsOldest) /\ [][C13_AppendStep]_vars

\* Two appended entries are in a full log: an older entry has left it.
C13_Witness ==
  /\ Len(activity) = 80
  /\ Cardinality({k \in 1..Len(activity) : activity[k].id > 0}) = 2
  /\ Cardinality({k \in 1..Len(activity) : activity[k].id < 0}) = 78

\* C14, the step: a run that attempts something read the latest queue, every queued item
\* is afterwards queued or published, and a published entry stays published and out of the
\* queue.
C14_Step ==
  /\ (last'.op = "run" /\ last'.result.attempted > 0) => last'.input = queue
  /\ \A i \in 1..Len(queue) :
       queue[i].id \in QueueIds(queue') \cup PublishedIds(published')
  /\ \A k \in 1..Len(published) :
       /\ published[k] \in Range(published')
       /\ published[k].sourceQueueId \notin QueueIds(queue')

\* C14: under any interleaving of the handlers and the runDueJobs calls no update is lost:
\* run-due never works on a queue older than the latest one, an enqueued item stays queued
\* until it is published, and a publication is not undone.
C14_NoLostUpdate == [][C14_Step]_vars

\* C15: normalization keeps the item of the snapshot and backfills it: maxAttempts that is
\* not a whole number > 0 becomes 3, attemptCount that is not a whole number >= 0 becomes 0,
\* a status other than failed becomes pending, a missing createdAt, updatedAt or publishAt
\* becomes the current time, and valid fields are kept.
C15_ImportBackfills ==
  last.op = "load" =>
    /\ Len(queue) = Len(last.input)
    /\ LET raw == last.input[1]
           y == queue[1]
       IN /\ y.maxAttempts =
               IF raw.maxAttempts.kind = "number" /\ ~raw.maxAttempts.frac
                  /\ raw.maxAttempts.floor > 0
               THEN raw.maxAttempts.floor ELSE 3
          /\ y.attemptCount =
               IF raw.attemptCount.kind = "number" /\ ~raw.attemptCount.frac
                  /\ raw.attemptCount.floor >= 0
               THEN raw.attemptCount.floor ELSE 0
          /\ y.status = IF raw.status = "failed" THEN "failed" ELSE "pending"
          /\ y.createdAt = IF raw.createdAt = NoTime THEN now ELSE raw.createdAt
          /\ y.updatedAt = IF raw.updatedAt = NoTime THEN now ELSE raw.updatedAt
          /\ y.publishAt = IF raw.publishAt = NoTime THEN now ELSE raw.publishAt
          /\ y.id = raw.id
          /\ y.posts = raw.posts
          /\ y.preview = raw.preview
          /\ y.sourceDraftId = raw.sourceDraftId
          /\ y.nextRetryAt = raw.nextRetryAt
          /\ y.lastAttemptAt = raw.lastAttemptAt
          /\ y.lastError = raw.lastError

\* C16: every item of a normalized queue has maxAttempts > 0, 0 <= attemptCount <=
\* maxAttempts, status pending or failed and no nextRetryAt when it is failed with
\* attemptCount >= maxAttempts; and no runDueQueue call on the queue leaves an item with
\* attemptCount > maxAttempts.
C16_NormalizedWellFormed ==
  /\ last.op = "load" =>
       \A i \in 1..Len(queue) :
         /\ queue[i].maxAttempts > 0
         /\ queue[i].attemptCount >= 0
         /\ queue[i].attemptCount <= queue[i].maxAttempts
         /\ queue[i].status \in {"pending", "failed"}
         /\ Terminal(queue[i]) => queue[i].nextRetryAt = NoTime
  /\ last.op = "run" =>
       \A i \in 1..Len(last.result.remaining) :
         last.result.remaining[i].attemptCount <= last.result.remaining[i].maxAttempts

\* ---- the lint engine ----

Linted == lint.op = "lint"

\* C17: the issues lintText returns are non-decreasing in start; issues with the same
\* start stand in the order of their detection, which is the order of the rules'
\* registration and, within a rule, the order of the matches.
Detection(issue) == CHOOSE k \in 1..Len(lint.detected) : lint.detected[k] = issue

C17_IssuesSortedStable ==
  Linted =>
    /\ Len(lint.issues) = Len(lint.detected)
    /\ \A i, j \in 1..Len(lint.detected) :
         i < j => RuleIndex(lint.detected[i].ruleId) <= RuleIndex(lint.detected[j].ruleId)
    /\ \A i, j \in 1..Len(lint.issues) :
         i < j =>
           /\ lint.issues[i].start <= lint.issues[j].start
           /\ lint.issues[i].start = lint.issues[j].start
                => /\ Detection(lint.issues[i]) < Detection(lint.issues[j])
                   /\ RuleIndex(lint.issues[i].ruleId) <= RuleIndex(lint.issues[j].ruleId)

\* two rules report at the same start, and the sort moved an issue forward
C17_Witness ==
  /\ Linted
  /\ lint.issues # lint.detected
  /\ \E i, j \in 1..Len(lint.issues) :
       /\ i < j
       /\ lint.issues[i].start = lint.issues[j].start
       /\ lint.issues[i].ruleId # lint.issues[j].ruleId

\* C18: no issue of R001 or R002 overlaps an occurrence of a whitelisted term.
WhitelistedTerms ==
  {term \in {trim(t) : t \in Range(DEFAULT_WHITELIST) \cup Range(lint.whitelist)} : term # <<>>}

Occurrences(term) ==
  {p \in 0..(Len(lint.text) - Len(term)) : SubSeq(lint.text, p + 1, p + Len(term)) = term}

Overlaps(issue, left, right) == issue.start < right /\ left < issue.end

C18_NoIssueOverlapsIgnored ==
  Linted =>
    \A i \in 1..Len(lint.issues) :
      lint.issues[i].ruleId \in {"R001", "R002"} =>
        \A term \in WhitelistedTerms : \A p \in Occurrences(term) :
          ~Overlaps(lint.issues[i], p, p + Len(term))

\* C19: a fix applied to its own result changes nothing.
C19_SecondFixKeepsText == lint'.op = "fix" /\ lint'.times = 2 => lint'.text = lint.text

C20_UnitsOnly ==
  Linted /\ lint.ruleState["R003"] =>
    \A i \in 1..Len(lint.issues) :
      lint.issues[i].ruleId = "R003" => toLowerCase(Tail(lint.issues[i].excerpt)) \in UNITS

\* C21: with R001 (R002) enabled and no whitelisted term in the text, every place where
\* a CJK character stands next to a Latin letter (an ASCII digit), in either order, lies
\* inside a reported R001 (R002) issue.
IsCjk(c) == c >= 19968 /\ c <= 40959
IsLatin(c) == (c >= 65 /\ c <= 90) \/ (c >= 97 /\ c <= 122)
IsAsciiDigit(c) == c >= 48 /\ c <= 57

\* the 0-based places p at which the characters p and p + 1 are a CJK character and an Other
Adjacencies(Other(_)) ==
  {p \in 0..(Len(lint.text) - 2) :
     \/ IsCjk(lint.text[p + 1]) /\ Other(lint.text[p + 2])
     \/ Other(lint.text[p + 1]) /\ IsCjk(lint.text[p + 2])}

Covered(ruleId, p) ==
  \E i \in 1..Len(lint.issues) :
    /\ lint.issues[i].ruleId = ruleId
    /\ lint.issues[i].start <= p
    /\ p + 2 <= lint.issues[i].end

NoTermMatches == \A term \in WhitelistedTerms : Occurrences(term) = {}

C21_AdjacencyCovered ==
  Linted /\ NoTermMatches =>
    /\ lint.ruleState["R001"] => \A p \in Adjacencies(IsLatin) : Covered("R001", p)
    /\ lint.ruleState["R002"] => \A p \in Adjacencies(IsAsciiDigit) : Covered("R002", p)

\* C22: protecting and restoring the whitelisted terms gives the text back, no placeholder
\* token occurs in the text or in a whitelisted term, and the R001 fix keeps every
\* occurrence of every whitelisted term.
CountIn(text, term) ==
  Cardinality({p \in 0..(Len(text) - Len(term)) : SubSeq(text, p + 1, p + Len(term)) = term})

C22_WhitelistRoundTrip ==
  lint.op = "fix" /\ lint.rule = "R001" /\ lint.times = 1 =>
    LET terms == uniqueTerms(DEFAULT_WHITELIST \o lint.whitelist)
        protected == protectTerms(lint.input, terms)
    IN /\ restoreTerms(protected.text, protected.replacements) = lint.input
       /\ \A i \in 1..Len(terms) :
            /\ CountIn(lint.input, Token(i - 1)) = 0
            /\ \A j \in 1..Len(terms) : CountIn(terms[j], Token(i - 1)) = 0
       /\ \A i \in 1..Len(terms) : CountIn(lint.text, terms[i]) >= CountIn(lint.input, terms[i])

\* C23: lintText on the result of a fix, with only the rule of the fix enabled and the
\* same whitelist, reports no issue.
C23_FixResolves == Linted /\ lint.rule # "none" => lint.issues = <<>>

\* C24: the plain text of a post is stable under re-parsing: toLintText of the text that
\* toLintText returned is that text, for markup and for plain input alike.
C24_PlainTextStable ==
  rich.op = "toLintText" /\ rich.times = 1 => toLintText(rich.text, rich.window) = rich.text

\* C25: getXCount reports a text valid exactly when its weighted length is at most 25000,
\* and reports 25000 minus the weighted length as remaining, which is negative over the
\* limit: valid holds exactly when remaining is not negative.
C25_CountWithinLimit ==
  xCount.op = "getXCount" =>
    /\ xCount.result.weightedLength = xCount.weightedLength
    /\ xCount.result.valid = (xCount.weightedLength <= 25000)
    /\ xCount.result.remaining = 25000 - xCount.weightedLength
    /\ xCount.result.valid = (xCount.result.remaining >= 0)

\* A text of exactly the limit was counted: nothing remains and it is valid.
C25_Witness ==
  /\ xCount.op = "getXCount"
  /\ xCount.weightedLength = 25000
  /\ xCount.result.remaining = 0
  /\ xCount.result.valid

\* The text with every run of white space replaced by one space, unit by unit.
WhiteSpaceCollapsed(text) ==
  SelectSeq([i \in 1..Len(text) |->
               IF text[i] \notin WhiteSpace THEN text[i]
               ELSE IF i > 1 /\ text[i - 1] \in WhiteSpace THEN 0 ELSE 32],
            LAMBDA unit : unit # 0)

\* The preview the posts of an item call for.
PreviewOfPosts(posts) ==
  LET visible == {k \in 1..Len(posts) : trim(stripHtml(posts[k])) # <<>>}
  IN IF visible = {} THEN <<40, 69, 109, 112, 116, 121, 41>>
     ELSE LET first == CHOOSE k \in visible : \A other \in visible : k <= other
              whole == WhiteSpaceCollapsed(trim(stripHtml(posts[first])))
          IN IF Len(whole) <= 80 THEN whole ELSE SubSeq(whole, 1, 80)

\* C26: every queue item built by buildQueueItem has as preview the stripped and trimmed
\* text of its first post with visible text, its runs of white space collapsed to one
\* space, cut to at most 80 characters, or (Empty) when no post has visible text; the
\* PublishedItem made of it has the same preview and the same postCount.
C26_PreviewDerived ==
  /\ \A i \in 1..Len(queue) :
       /\ queue[i].preview = PreviewOfPosts(queue[i].posts)
       /\ Len(queue[i].preview) <= 80
       /\ queue[i].postCount = Len(queue[i].posts)
       /\ queue[i].posts = normalizePosts(PreparedPosts(queue[i].sourceDraftId))
  /\ \A i \in 1..Len(published) :
       /\ published[i].preview = PreviewOfPosts(published[i].posts)
       /\ Len(published[i].preview) <= 80
       /\ published[i].postCount = Len(published[i].posts)
       /\ published[i].posts = normalizePosts(PreparedPosts(published[i].sourceDraftId))

\* A queued item was published whose first post is blank and whose second post is longer
\* than the preview: the preview is the 80 characters left of it after collapsing.
C26_Witness ==
  \E i \in 1..Len(published) :
    /\ last.op = "publish"
    /\ published[i].sourceQueueId = last.id
    /\ published[i].postCount = 2
    /\ trim(stripHtml(published[i].posts[1])) = <<>>
    /\ Len(trim(stripHtml(published[i].posts[2]))) > 80
    /\ Len(published[i].preview) = 80
    /\ published[i].preview[79] = 32
    /\ published[i].preview[80] = 98

\* C27: runDueQueue partitions the queue it is given: when the ids of the queue are
\* distinct, the id of each item is the id of exactly one remaining item or the
\* sourceQueueId of exactly one published item, never both and never neither, and remaining
\* and published together have as many entries as the queue.
C27_RunPartitions ==
  (/\ last.op = "run"
   /\ \A i, j \in 1..Len(last.input) : last.input[i].id = last.input[j].id => i = j)
  => LET remaining == last.result.remaining
         done == last.result.published
     IN /\ \A i \in 1..Len(last.input) :
             Cardinality({k \in 1..Len(remaining) : remaining[k].id = last.input[i].id})
               + Cardinality({k \in 1..Len(done) : done[k].sourceQueueId = last.input[i].id}) = 1
        /\ \A k \in 1..Len(remaining) : \E i \in 1..Len(last.input) :
             remaining[k].id = last.input[i].id
        /\ \A k \in 1..Len(done) : \E i \in 1..Len(last.input) :
             done[k].sourceQueueId = last.input[i].id
        /\ Len(remaining) + Len(done) = Len(last.input)

\* A run on two items published one and kept the other, which failed.
C27_Witness ==
  /\ last.op = "run"
  /\ Len(last.input) = 2
  /\ Len(last.result.remaining) = 1
  /\ Len(last.result.published) = 1
  /\ last.result.failed = 1
  /\ last.result.published[1].sourceQueueId # last.result.remaining[1].id

\* C28: with simulated outcomes an item built by buildQueueItem (maxAttempts 3) that is in
\* the queue is eventually published, as long as the due items keep being run while time
\* advances: it fails on its first two attempts at most, its third attempt succeeds, and it
\* is never failed for good (no queue_retry_exhausted entry is made for it).
C28_NeverExhausted ==
  /\ \A i \in 1..Len(queue) :
       /\ queue[i].attemptCount < queue[i].maxAttempts
       /\ queue[i].status = "failed" => queue[i].nextRetryAt # NoTime
  /\ \A k \in 1..Len(last.result.activity) :
       last.result.activity[k].event # "queue_retry_exhausted"
  /\ \A i \in 1..Len(last.input) :
       last.op = "run" /\ IsDue(last.input[i], now) /\ last.input[i].attemptCount >= 2
         => \E k \in 1..Len(last.result.published) :
              last.result.published[k].sourceQueueId = last.input[i].id

C28_EventuallyPublished ==
  /\ []C28_NeverExhausted
  /\ \A id \in 1..MaxItems :
       (id \in QueueIds(queue))
         ~> (\E k \in 1..Len(published) : published[k].sourceQueueId = id)

\* An item that failed twice was published by its third attempt.
C28_Witness ==
  /\ last.op = "run"
  /\ \E i \in 1..Len(last.input) :
       /\ last.input[i].attemptCount = 2
       /\ last.input[i].status = "failed"
       /\ \E k \in 1..Len(published) : published[k].sourceQueueId = last.input[i].id
       /\ \A k \in 1..Len(queue) : queue[k].id # last.input[i].id

\* C29: applyAllFixes reaches a fixpoint in one pass: applied to its own result with the
\* same rule state and whitelist it returns that result unchanged.
C29_FixAllIdempotent == lint.op = "fixAll" /\ lint.times = 2 => lint.text = lint.input

\* C30: scheduling and manual publishing are gated on validity.  When a post of the draft
\* is not valid, queueCurrentDraft and publishCurrentDraft leave the queue, the published
\* history and the activity log as they are and set the publish state to blocked; every
\* item in the queue or in the published history was made from a draft whose posts are
\* all valid.
ClaimValid(draft) ==
  \A i \in 1..Len(WeightedLengthOf(draft)) : WeightedLengthOf(draft)[i] <= X_LIMIT

Pressed(draft) ==
  \/ \E s \in ScheduleTimes : QueueCurrentDraft(draft, s)
  \/ PublishCurrentDraft(draft)

C30_OnlyValidAdded ==
  /\ \A i \in 1..Len(queue) : ClaimValid(queue[i].sourceDraftId)
  /\ \A k \in 1..Len(published) : ClaimValid(published[k].sourceDraftId)

C30_Gated ==
  /\ []C30_OnlyValidAdded
  /\ [][\A draft \in GateDrafts :
          ~ClaimValid(draft) /\ Pressed(draft)
            => /\ queue' = queue
               /\ published' = published
               /\ activity' = activity
               /\ publishState' = "blocked"]_vars

\* A press on a draft with a post over the limit was refused while the queue, the history
\* and the log hold entries.
C30_Witness ==
  /\ publishState = "blocked"
  /\ queue # <<>>
  /\ published # <<>>
  /\ activity # <<>>

====
